---- MODULE Spec2Model ----
(***************************************************************************)
(* Scoped settings resolution of ccstatusline: the deep merge of the       *)
(* user, project and local documents over the schema defaults, the load    *)
(* of one scope file with its migration and write-back, and the save,      *)
(* create, delete and render operations that write the scope files.        *)
(***************************************************************************)
EXTENDS Integers, Sequences, FiniteSets, TLC

VARIABLES
    files,      \* scope -> the settings file of that scope on disk
    dirs,       \* directory -> whether the settings directory exists
    gitignore,  \* the .gitignore of the project root
    last,       \* the operation that completed last, and how it went
    budget,     \* operations the behaviour may still perform
    mergeSources, \* deepMerge: the argument list of the call
    mergeResult,  \* deepMerge: the value the call returned
    mig,        \* migrateConfig: the call in progress and what it returned
    walk,       \* getProjectRoot, getClaudeConfigDir: the calls in progress
    procs,      \* process -> its position in loadSettings and saveSettings
    tui         \* the state of the component on screen: the App or the wizard

vars == <<files, dirs, gitignore, last, budget, mergeSources, mergeResult, mig,
          walk, procs, tui>>

-----------------------------------------------------------------------------
(* JavaScript values. Every value is a record [t, v]: t is the kind, v the  *)
(* payload (0 where the kind has none).                                     *)

Undefined == [t |-> "undefined", v |-> 0]
Null      == [t |-> "null", v |-> 0]
Num(n)    == [t |-> "number", v |-> n]
Str(s)    == [t |-> "string", v |-> s]
Bool(b)   == [t |-> "boolean", v |-> b]
Arr(s)    == [t |-> "array", v |-> s]
Obj(f)    == [t |-> "object", v |-> f]

EmptyObj == Obj(<<>>)

\* if (!x): undefined, null, 0, "" and false are falsy.
Truthy(x) ==
    CASE x.t = "undefined" -> FALSE
      [] x.t = "null"      -> FALSE
      [] x.t = "number"    -> x.v # 0
      [] x.t = "string"    -> x.v # ""
      [] x.t = "boolean"   -> x.v
      [] OTHER             -> TRUE

\* typeof x
TypeOf(x) ==
    CASE x.t \in {"null", "array", "object"} -> "object"
      [] OTHER -> x.t

\* Array.isArray(x)
IsArray(x) == x.t = "array"

\* Every object of the model comes from JSON.parse or from an object
\* literal, so its prototype is Object.prototype.
isPlainObject(x) == TypeOf(x) = "object" /\ x # Null /\ ~IsArray(x)

\* The element of a singleton. Only({F(x) : x \in {e}}) is F(e), with e
\* evaluated once and named x.
Only(S) == CHOOSE x \in S : TRUE

\* The keys Object.entries(x) lists: the own keys of an object, the indices
\* of an array, none for a number or a boolean.
OwnKeys(x) ==
    CASE x.t = "object" -> DOMAIN x.v
      [] x.t = "array"  -> {ToString(i - 1) : i \in DOMAIN x.v}
      [] OTHER          -> {}

\* x[k] for an own key k of x.
Get(x, k) ==
    IF x.t = "object" THEN x.v[k]
    ELSE x.v[CHOOSE i \in DOMAIN x.v : ToString(i - 1) = k]

-----------------------------------------------------------------------------
(* deepMerge (scoped-config.ts).                                            *)

\* if (!source) continue;
SkipSource(source) == ~Truthy(source)

\* if (value === undefined) continue;
SkipValueNever(value) == FALSE
SkipValue(value) == value = Undefined

RECURSIVE deepMerge(_)

\* The branch taken for one key of a source: the new result[key].
\* result[key] of a key the result does not hold is undefined.
AssignedConcat(result, key, value) ==
    IF IsArray(value)
    THEN IF key \in DOMAIN result.v /\ IsArray(result.v[key])
         THEN Arr(result.v[key].v \o value.v)
         ELSE Arr(value.v)
    ELSE IF isPlainObject(value) /\ key \in DOMAIN result.v
            /\ isPlainObject(result.v[key])
    THEN deepMerge(<<result.v[key], value>>)
    ELSE value
AssignedShallow(result, key, value) ==
    IF IsArray(value) THEN Arr(value.v) ELSE value
Assigned(result, key, value) ==
    IF IsArray(value)
    THEN Arr(value.v)                               \* Array.from(value)
    ELSE IF isPlainObject(value) /\ key \in DOMAIN result.v
            /\ isPlainObject(result.v[key])
    THEN deepMerge(<<result.v[key], value>>)
    ELSE value

\* One turn of the outer loop: the result after the entries of one source.
MergeSource(result, source) ==
    IF SkipSource(source) THEN result
    ELSE LET set == {k \in OwnKeys(source) : ~SkipValue(Get(source, k))}
         IN  Obj([k \in DOMAIN result.v \cup set |->
                    IF k \in set THEN Assigned(result, k, Get(source, k))
                    ELSE result.v[k]])

\* deepMerge(...srcs): the sources are folded from the left into {}.
deepMerge(srcs) ==
    IF srcs = <<>> THEN EmptyObj
    ELSE MergeSource(deepMerge(SubSeq(srcs, 1, Len(srcs) - 1)), srcs[Len(srcs)])

-----------------------------------------------------------------------------
(* The documents the deepMerge calls are checked on.                        *)

MaxNum == 2      \* numbers 1..MaxNum
MaxArrLen == 2   \* arrays of 1..MaxArrLen elements

MNums == {Num(n) : n \in 1..MaxNum}
\* The array of length n holds n times the number n.
MArr(n) == Arr([i \in 1..n |-> Num(n)])
MArrays == {MArr(n) : n \in 1..MaxArrLen}
MLeaves == MNums \cup {Undefined} \cup MArrays

\* The objects with keys among ks whose value at k is drawn from vals[k].
ObjectsOver(ks, vals) ==
    UNION {{Obj(f) : f \in [sub -> UNION {vals[k] : k \in sub}]
                     \ {g \in [sub -> UNION {vals[k] : k \in sub}] :
                          \E k \in sub : g[k] \notin vals[k]}} :
           sub \in SUBSET ks}

MInner == ObjectsOver({"x"}, [k \in {"x"} |-> MLeaves])
MMid   == ObjectsOver({"x", "y"},
                      [k \in {"x", "y"} |->
                         IF k = "x" THEN MLeaves \cup MInner ELSE MNums])
MDocs  == ObjectsOver({"a", "b"},
                      [k \in {"a", "b"} |->
                         IF k = "a" THEN MLeaves \cup MMid
                         ELSE MNums \cup {Undefined}])

NotCalled == [t |-> "pending", v |-> 0]

NoFiles == [s \in {"user", "project", "local"} |-> 0]

InitMerge ==
    /\ mergeSources \in {<<x, y>> : x \in MDocs, y \in MDocs}
    /\ mergeResult = NotCalled
    /\ files = NoFiles
    /\ dirs = 0
    /\ gitignore = 0
    /\ last = 0
    /\ budget = 0
    /\ mig = 0
    /\ walk = 0
    /\ procs = 0
    /\ tui = 0

\* deepMerge(X, Y)
MergeTwo ==
    /\ mergeResult = NotCalled
    /\ Len(mergeSources) = 2
    /\ mergeResult' = deepMerge(mergeSources)
    /\ UNCHANGED <<mergeSources, files, dirs, gitignore, last, budget, mig, walk, procs, tui>>

\* deepMerge(X, undefined, Y)
MergeAroundUndefined ==
    /\ mergeResult = NotCalled
    /\ Len(mergeSources) = 2
    /\ mergeSources' = <<mergeSources[1], Undefined, mergeSources[2]>>
    /\ mergeResult' = deepMerge(mergeSources')
    /\ UNCHANGED <<files, dirs, gitignore, last, budget, mig, walk, procs, tui>>

NextMerge == MergeTwo \/ MergeAroundUndefined

SpecMerge == InitMerge /\ [][NextMerge]_vars

-----------------------------------------------------------------------------
(* Settings schema (types/Settings.ts: CURRENT_VERSION, SettingsSchema).    *)

CURRENT_VERSION == 4

\* data.k, undefined when data does not hold k.
Field(data, k) ==
    IF data.t = "object" /\ k \in DOMAIN data.v THEN data.v[k] ELSE Undefined

\* {...data, k: value}
With(data, k, value) ==
    Obj([j \in DOMAIN data.v \cup {k} |-> IF j = k THEN value ELSE data.v[j]])

\* const {k, ...rest} = data
Without(data, k) == Obj([j \in DOMAIN data.v \ {k} |-> data.v[j]])

\* A widget item {id, type}.
Item(id, type) == Obj([id |-> Str(id), type |-> Str(type)])

IsItem(x) ==
    /\ isPlainObject(x)
    /\ TypeOf(Field(x, "id")) = "string"
    /\ TypeOf(Field(x, "type")) = "string"

IsLines(x) ==
    /\ IsArray(x)
    /\ Len(x.v) >= 1
    /\ \A i \in DOMAIN x.v :
          /\ IsArray(x.v[i])
          /\ \A j \in DOMAIN x.v[i].v : IsItem(x.v[i].v[j])

IsUpdateMessage(x) ==
    /\ isPlainObject(x)
    /\ Field(x, "message").t \in {"string", "null", "undefined"}
    /\ Field(x, "remaining").t \in {"number", "null", "undefined"}

SchemaKeys ==
    {"version", "lines", "colorLevel", "defaultSeparator", "customModules",
     "updatemessage"}

\* The value v satisfies the schema of field k.
FieldOK(k, v) ==
    CASE k = "version"          -> v.t = "number"
      [] k = "lines"            -> IsLines(v)
      [] k = "colorLevel"       -> v.t = "number" /\ v.v \in 0..3
      [] k = "defaultSeparator" -> v.t = "string"
      [] k = "customModules"    -> IsArray(v)
      [] k = "updatemessage"    -> IsUpdateMessage(v)

\* SettingsSchema.parse({})
SchemaDefaults ==
    Obj([version |-> Num(CURRENT_VERSION),
         lines |-> Arr(<<Arr(<<Item("1", "model")>>)>>),
         colorLevel |-> Num(2),
         customModules |-> Arr(<<>>)])

\* SettingsSchema.safeParse(data).success
SchemaAccepts(data) ==
    /\ isPlainObject(data)
    /\ \A k \in SchemaKeys :
          Field(data, k) # Undefined => FieldOK(k, Field(data, k))

\* SettingsSchema.parse(data) of a document the schema accepts: the fields
\* of the schema, an absent one at its default; unknown keys are dropped.
SchemaOutput(data) ==
    LET present == {k \in SchemaKeys : Field(data, k) # Undefined}
    IN  Obj([k \in present \cup DOMAIN SchemaDefaults.v |->
               IF k \in present THEN data.v[k] ELSE SchemaDefaults.v[k]])

-----------------------------------------------------------------------------
(* JSON.stringify followed by JSON.parse: what a written document reads     *)
(* back as. A key whose value is undefined is not written; undefined in an  *)
(* array is written as null.                                                *)

RECURSIVE ToJSON(_)
ToJSON(x) ==
    CASE x.t = "object" ->
             Obj([k \in {j \in DOMAIN x.v : x.v[j] # Undefined} |-> ToJSON(x.v[k])])
      [] x.t = "array" ->
             Arr([i \in DOMAIN x.v |->
                    IF x.v[i] = Undefined THEN Null ELSE ToJSON(x.v[i])])
      [] OTHER -> x

-----------------------------------------------------------------------------
(* Migrations (utils/migrations.ts).                                        *)

isRecord(value) == TypeOf(value) = "object" /\ value # Null /\ ~IsArray(value)

\* generateGuid(): the identifier drawn for item j of line i; seed stands
\* for the randomness of one run.
Guid(seed, i, j) ==
    Str("guid-" \o ToString(seed) \o "-" \o ToString(i) \o "-" \o ToString(j))

UpdateRemaining == 12

UpdateMessage(message) ==
    Obj([message |-> Str(message), remaining |-> Num(UpdateRemaining)])

\* if (typeof data.k === type) migrated.k = data.k
CopyIfType(migrated, data, k, type) ==
    IF TypeOf(Field(data, k)) = type
    THEN With(migrated, k, Field(data, k))
    ELSE migrated

\* One line of a v1 document: separators are filtered out when
\* defaultSeparator is set, then every record item with a string type gets
\* an id.
V1Line(data, line, i, seed) ==
    LET processedLine ==
            IF Truthy(Field(data, "defaultSeparator"))
            THEN SelectSeq(line.v, LAMBDA item :
                     IF isRecord(item) THEN Field(item, "type") # Str("separator")
                     ELSE TRUE)
            ELSE line.v
        typed == SelectSeq(processedLine, LAMBDA item :
                     isRecord(item) /\ TypeOf(Field(item, "type")) = "string")
    IN  Arr([j \in DOMAIN typed |-> With(typed[j], "id", Guid(seed, i, j))])

V1toV2(data, seed) ==
    LET lines == Field(data, "lines")
        arrays == IF IsArray(lines) THEN SelectSeq(lines.v, IsArray) ELSE <<>>
        m0 == IF Truthy(lines) /\ IsArray(lines)
              THEN Obj([lines |-> Arr([i \in DOMAIN arrays |->
                                         V1Line(data, arrays[i], i, seed)])])
              ELSE EmptyObj
        m1 == CopyIfType(m0, data, "flexMode", "string")
        m2 == CopyIfType(m1, data, "compactThreshold", "number")
        m3 == CopyIfType(m2, data, "colorLevel", "number")
        m4 == CopyIfType(m3, data, "defaultSeparator", "string")
        m5 == CopyIfType(m4, data, "defaultPadding", "string")
        m6 == CopyIfType(m5, data, "inheritSeparatorColors", "boolean")
        m7 == CopyIfType(m6, data, "overrideBackgroundColor", "string")
        m8 == CopyIfType(m7, data, "overrideForegroundColor", "string")
        m9 == CopyIfType(m8, data, "globalBold", "boolean")
    IN  With(With(m9, "version", Num(2)), "updatemessage",
             UpdateMessage("ccstatusline updated to v2.0.0, launch tui to use new settings"))

V2toV3(data, seed) ==
    With(With(data, "version", Num(3)), "updatemessage",
         UpdateMessage("ccstatusline updated to v2.0.2, 5hr block timer widget added"))

\* migrated.customModules = []
V3toV4Overwrite(data, seed) ==
    With(With(data, "version", Num(4)), "customModules", Arr(<<>>))

\* migrated.customModules ??= []
V3toV4(data, seed) ==
    LET migrated == With(data, "version", Num(4))
    IN  IF Field(migrated, "customModules") \in {Undefined, Null}
        THEN With(migrated, "customModules", Arr(<<>>))
        ELSE migrated

\* A registry whose second step claims to reach version 4.
migrationsSkipping ==
    <<[fromVersion |-> 1, toVersion |-> 2],
      [fromVersion |-> 2, toVersion |-> 4],
      [fromVersion |-> 3, toVersion |-> 4]>>

migrations ==
    <<[fromVersion |-> 1, toVersion |-> 2],
      [fromVersion |-> 2, toVersion |-> 3],
      [fromVersion |-> 3, toVersion |-> 4]>>

\* migrations[i].migrate(data)
Migrate(i, data, seed) ==
    CASE i = 1 -> V1toV2(data, seed)
      [] i = 2 -> V2toV3(data, seed)
      [] i = 3 -> V3toV4(data, seed)

\* A detectVersion that takes a record without a numeric version for
\* version 0.
detectVersionZero(data) ==
    IF ~isRecord(data) THEN 1
    ELSE IF Field(data, "version").t = "number" THEN Field(data, "version").v
    ELSE 0

detectVersion(data) ==
    IF ~isRecord(data) THEN 1
    ELSE IF Field(data, "version").t = "number" THEN Field(data, "version").v
    ELSE 1

needsMigrationNever(data, targetVersion) == FALSE
needsMigration(data, targetVersion) == detectVersion(data) < targetVersion

\* while (currentVersion < targetVersion)
LoopContinuesInclusive(currentVersion, targetVersion) ==
    currentVersion <= targetVersion
LoopContinues(currentVersion, targetVersion) == currentVersion < targetVersion

\* migrations.find(m => m.fromVersion === currentVersion): the index of the
\* first such migration, 0 when there is none.
FindMigration(currentVersion) ==
    LET found == {i \in DOMAIN migrations :
                     migrations[i].fromVersion = currentVersion}
    IN  IF found = {} THEN 0
        ELSE CHOOSE m \in found : \A n \in found : m <= n

\* if (!migration) break: the loop is left with the document as migrated
\* so far.
OnNoMigrationOriginal(data, migrated) == data
OnNoMigration(data, migrated) == migrated

\* The while loop of migrateConfig.
RECURSIVE MigrateLoop(_, _, _, _, _)
MigrateLoop(data, migrated, currentVersion, targetVersion, seed) ==
    IF LoopContinues(currentVersion, targetVersion)
    THEN LET i == FindMigration(currentVersion)
         IN  IF i = 0 THEN OnNoMigration(data, migrated)
             ELSE MigrateLoop(data, Migrate(i, migrated, seed),
                              migrations[i].toVersion, targetVersion, seed)
    ELSE migrated

migrateConfig(data, targetVersion, seed) ==
    IF ~isRecord(data) THEN data
    ELSE MigrateLoop(data, data, detectVersion(data), targetVersion, seed)

-----------------------------------------------------------------------------
(* The disk: the three scope files, the directories that hold them and the  *)
(* .gitignore of the project root.                                          *)

Scopes == {"user", "project", "local"}

MissingFile   == [kind |-> "missing", doc |-> Undefined]
MalformedFile == [kind |-> "malformed", doc |-> Undefined]  \* not JSON
JsonFile(d)   == [kind |-> "json", doc |-> d]

\* getSettingsPathForScope(scope)
ScopePath(scope) ==
    CASE scope = "user"    -> "~/.claude/statusline/settings.json"
      [] scope = "project" -> "<root>/.claude/statusline/settings.json"
      [] scope = "local"   -> "<root>/.claude/statusline/settings.local.json"

\* fs.existsSync(path)
Exists(file) == file.kind # "missing"

-----------------------------------------------------------------------------
(* loadSingleScopeSettings: fail names the file operation that fails in     *)
(* this call ("read": readFile, "write": the write-back), if any. The       *)
(* result holds the value returned (undefined: absent), the file as the     *)
(* call leaves it, the path taken, the version detected in the file and     *)
(* whether the call raised instead of returning (the outer try/catch makes  *)
(* every path return).                                                      *)

Loaded(ret, file, path, ver) ==
    [ret |-> ret, file |-> file, path |-> path, ver |-> ver, raised |-> FALSE]

\* The parse failure branch (the catch around JSON.parse).
OnMalformedReset(file) ==
    Loaded(Undefined, JsonFile(SchemaDefaults), "malformed", 0)
OnMalformed(file) == Loaded(Undefined, file, "malformed", 0)

\* The outer catch: a failed readFile or writeFile.
OnIOErrorRaise(file, path, rawData) ==
    [Loaded(Undefined, file, path, 0) EXCEPT !.raised = TRUE]
OnIOError(file, path, rawData) == Loaded(Undefined, file, path, 0)

\* 'version' in rawData, for an object or an array
hasVersion(rawData) ==
    /\ TypeOf(rawData) = "object"
    /\ rawData # Null
    /\ rawData.t = "object" /\ "version" \in DOMAIN rawData.v

loadSingleScopeSettings(file, fail, seed) ==
    IF ~Exists(file) THEN Loaded(Undefined, file, "missing", 0)
    ELSE IF fail = "read" THEN OnIOError(file, "readfail", Undefined)
    ELSE IF file.kind = "malformed" THEN OnMalformed(file)
    ELSE LET rawData == file.doc
             ver == detectVersion(rawData)
         IN  IF ~hasVersion(rawData) \/ needsMigration(rawData, CURRENT_VERSION)
             THEN Only({IF fail = "write"
                        THEN [OnIOError(file, "writefail", migrated)
                                  EXCEPT !.ver = ver]
                        ELSE Loaded(migrated, JsonFile(ToJSON(migrated)),
                                    "migrated", ver) :
                        migrated \in {migrateConfig(rawData, CURRENT_VERSION, seed)}})
             ELSE Loaded(rawData, file, "unchanged", ver)

-----------------------------------------------------------------------------
(* resolveSettings                                                          *)

\* SettingsSchema.parse(merged): the validated settings, or a throw.
ValidatedUnchecked(merged) == [threw |-> FALSE, settings |-> merged]
Validated(merged) ==
    IF SchemaAccepts(merged)
    THEN [threw |-> FALSE, settings |-> SchemaOutput(merged)]
    ELSE [threw |-> TRUE, settings |-> Undefined]

\* deepMerge<Settings>(defaults, userSettings, projectSettings, localSettings)
MergeScopesReversed(defaults, userSettings, projectSettings, localSettings) ==
    deepMerge(<<defaults, localSettings, projectSettings, userSettings>>)
MergeScopes(defaults, userSettings, projectSettings, localSettings) ==
    deepMerge(<<defaults, userSettings, projectSettings, localSettings>>)

\* fs: the scope files; fail: per scope, the file operation that fails.
\* ld: what the three loads did; validated: what SettingsSchema.parse did.
\* A resolveSettings that reports the path of every scope whose load
\* returned something other than undefined.
ResolutionDefined(ld, validated) ==
    [files    |-> [s \in Scopes |-> ld[s].file],
     threw    |-> validated.threw,
     settings |-> validated.settings,
     sources  |-> [s \in Scopes |->
                     IF validated.threw THEN Null
                     ELSE IF ld[s].ret # Undefined THEN Str(ScopePath(s))
                     ELSE Null],
     load     |-> [s \in Scopes |->
                     [path |-> ld[s].path, ver |-> ld[s].ver,
                      raised |-> ld[s].raised]]]

Resolution(ld, validated) ==
    [files    |-> [s \in Scopes |-> ld[s].file],
     threw    |-> validated.threw,
     settings |-> validated.settings,
     sources  |-> [s \in Scopes |->
                     IF validated.threw THEN Null
                     ELSE IF Truthy(ld[s].ret) THEN Str(ScopePath(s))
                     ELSE Null],
     load     |-> [s \in Scopes |->
                     [path |-> ld[s].path, ver |-> ld[s].ver,
                      raised |-> ld[s].raised]]]

resolveSettings(fs, fail, seed) ==
    Only({Only({Resolution(ld, validated) :
                validated \in
                    {IF \E s \in Scopes : ld[s].raised
                     THEN [threw |-> TRUE, settings |-> Undefined]
                     ELSE Validated(MergeScopes(SchemaDefaults, ld["user"].ret,
                                                ld["project"].ret,
                                                ld["local"].ret))}}) :
          ld \in {[s \in Scopes |->
                     loadSingleScopeSettings(fs[s], fail[s], seed)]}})

-----------------------------------------------------------------------------
(* Saving. A disk is [files, dirs, gitignore]; fail names the one file      *)
(* operation of the call that fails, if any; a result is the disk the call  *)
(* leaves and whether it threw.                                             *)

Dirs == {"user", "project"}

\* path.dirname(getSettingsPathForScope(scope)): the project and the local
\* file share <root>/.claude/statusline.
DirOf(scope) == IF scope = "user" THEN "user" ELSE "project"

Disk(f, d, g) == [files |-> f, dirs |-> d, gitignore |-> g]

NoGitignore == [exists |-> FALSE, patterns |-> 0]

\* ensureLocalSettingsGitignored: patterns counts the occurrences of the
\* local-settings pattern in .gitignore.
\* An ensureLocalSettingsGitignored that writes the pattern to a new
\* .gitignore when there is none.
ensureLocalSettingsGitignoredCreating(g, fail) ==
    IF g.exists
    THEN IF fail # "gitread" /\ fail # "gitappend" /\ g.patterns = 0
         THEN [g EXCEPT !.patterns = 1] ELSE g
    ELSE [exists |-> TRUE, patterns |-> 1]

ensureLocalSettingsGitignoredAlways(g, fail) ==
    IF g.exists /\ fail \notin {"gitread", "gitappend"}
    THEN [g EXCEPT !.patterns = g.patterns + 1]
    ELSE g

\* unlink without the existsSync test.
deleteScopeSettingsUnchecked(disk, scope, fail) ==
    IF ~Exists(disk.files[scope]) \/ fail = "unlink"
    THEN [disk |-> disk, threw |-> TRUE, failed |-> "unlink"]
    ELSE [disk |-> [disk EXCEPT !.files[scope] = MissingFile],
          threw |-> FALSE, failed |-> "none"]

ensureLocalSettingsGitignored(g, fail) ==
    IF g.exists
    THEN IF fail = "gitread" THEN g
         ELSE IF g.patterns = 0
              THEN IF fail = "gitappend" THEN g
                   ELSE [g EXCEPT !.patterns = g.patterns + 1]
              ELSE g
    ELSE g

\* { ...settings, version: CURRENT_VERSION }
StampKeepVersion(settings) ==
    IF Field(settings, "version") = Undefined
    THEN With(settings, "version", Num(CURRENT_VERSION))
    ELSE settings
Stamp(settings) == With(settings, "version", Num(CURRENT_VERSION))

\* Whether ensureLocalSettingsGitignored raises: its try/catch logs the
\* failure of readFile and appendFile.
ensureRaisesUncaught(g, fail) == g.exists /\ fail \in {"gitread", "gitappend"}
ensureRaises(g, fail) == FALSE

\* The file-system calls of ensureLocalSettingsGitignored, in order.
ensureCalls(g, fail) ==
    <<"gitexists">>
    \o (IF g.exists THEN <<"gitread">> ELSE <<>>)
    \o (IF g.exists /\ fail # "gitread" /\ g.patterns = 0
        THEN <<"gitappend">> ELSE <<>>)

\* A saveScopedSettings that opens the file exclusively: it refuses to
\* overwrite a file that exists.
saveScopedSettingsExclusive(disk, settings, scope, createIfMissing, fail) ==
    IF Exists(disk.files[scope])
    THEN [disk |-> disk, threw |-> TRUE, calls |-> <<"mkdir", "write">>,
          failed |-> "write"]
    ELSE [disk |-> Disk([disk.files EXCEPT
                            ![scope] = JsonFile(ToJSON(Stamp(settings)))],
                        [disk.dirs EXCEPT ![DirOf(scope)] = TRUE],
                        disk.gitignore),
          threw |-> FALSE, calls |-> <<"mkdir", "write">>, failed |-> "none"]

\* The result holds the disk as the call leaves it, whether the call threw,
\* the file-system calls it made, in order, and the one of them that failed
\* (writeFile fails in a directory that does not exist).
saveScopedSettings(disk, settings, scope, createIfMissing, fail) ==
    LET dir == DirOf(scope)
        mk == createIfMissing # Bool(FALSE)
        dirs1 == IF mk /\ fail # "mkdir"
                 THEN [disk.dirs EXCEPT ![dir] = TRUE] ELSE disk.dirs
        made == IF mk THEN <<"mkdir">> ELSE <<>>
    IN  IF mk /\ fail = "mkdir"
        THEN [disk |-> disk, threw |-> TRUE, calls |-> made,
              failed |-> "mkdir"]
        ELSE IF ~dirs1[dir] \/ fail = "write"
        THEN [disk |-> Disk(disk.files, dirs1, disk.gitignore), threw |-> TRUE,
              calls |-> made \o <<"write">>, failed |-> "write"]
        ELSE [disk |-> Disk([disk.files EXCEPT
                                ![scope] = JsonFile(ToJSON(Stamp(settings)))],
                            dirs1,
                            IF scope = "local"
                            THEN ensureLocalSettingsGitignored(disk.gitignore, fail)
                            ELSE disk.gitignore),
              threw |-> scope = "local" /\ ensureRaises(disk.gitignore, fail),
              calls |-> made \o <<"write">>
                        \o (IF scope = "local"
                            THEN ensureCalls(disk.gitignore, fail) ELSE <<>>),
              failed |-> IF scope = "local" /\ disk.gitignore.exists
                            /\ (\/ fail = "gitread"
                                \/ fail = "gitappend" /\ disk.gitignore.patterns = 0)
                         THEN fail ELSE "none"]

\* scopeHasSettings(scope)
scopeHasSettings(disk, scope) == Exists(disk.files[scope])

\* A deleteScopeSettings that logs a failed unlink.
deleteScopeSettingsQuiet(disk, scope, fail) ==
    IF Exists(disk.files[scope])
    THEN IF fail = "unlink"
         THEN [disk |-> disk, threw |-> FALSE, failed |-> "unlink"]
         ELSE [disk |-> [disk EXCEPT !.files[scope] = MissingFile],
               threw |-> FALSE, failed |-> "none"]
    ELSE [disk |-> disk, threw |-> FALSE, failed |-> "none"]

deleteScopeSettings(disk, scope, fail) ==
    IF Exists(disk.files[scope])
    THEN IF fail = "unlink"
         THEN [disk |-> disk, threw |-> TRUE, failed |-> "unlink"]
         ELSE [disk |-> [disk EXCEPT !.files[scope] = MissingFile],
               threw |-> FALSE, failed |-> "none"]
    ELSE [disk |-> disk, threw |-> FALSE, failed |-> "none"]

createScopeSettings(disk, scope, settings, fail) ==
    LET defaults == SchemaDefaults
        mergedSettings == IF Truthy(settings)
                          THEN deepMerge(<<defaults, settings>>) ELSE defaults
    IN  saveScopedSettings(disk, mergedSettings, scope, Undefined, fail)

-----------------------------------------------------------------------------
(* The status line process (ccstatusline.ts).                               *)

\* message.trim() !== ''
NotBlank(message) == message.v \notin {"", " "}

\* The update-message test of renderMultipleLines.
ShowsMessage(settings) ==
    LET um == Field(settings, "updatemessage")
    IN  /\ Truthy(Field(um, "message"))
        /\ NotBlank(Field(um, "message"))
        /\ Truthy(Field(um, "remaining"))
        /\ Field(um, "remaining").v > 0

\* What renderMultipleLines saves after it printed the message.
AfterMessage(settings) ==
    LET um == Field(settings, "updatemessage")
        newRemaining == Field(um, "remaining").v - 1
    IN  IF newRemaining <= 0 THEN Without(settings, "updatemessage")
        ELSE With(settings, "updatemessage",
                  With(um, "remaining", Num(newRemaining)))

\* renderMultipleLines: r is what loadSettings() did (resolveSettings on
\* the disk); the lines are printed, then the update message is handled.
\* saveSettings(x) is saveScopedSettings(x) with the default { scope: 'user' }.
renderMultipleLines(disk, r, saveFail) ==
    LET d1 == Disk(r.files, disk.dirs, disk.gitignore)
    IN  IF r.threw THEN [disk |-> d1, threw |-> TRUE, printed |-> FALSE]
        ELSE IF ShowsMessage(r.settings)
        THEN Only({[disk |-> sv.disk, threw |-> sv.threw, printed |-> TRUE] :
                   sv \in {saveScopedSettings(d1, AfterMessage(r.settings),
                                              "user", Undefined, saveFail)}})
        ELSE [disk |-> d1, threw |-> FALSE, printed |-> FALSE]

\* main, interactive: the update message is removed before the TUI runs.
interactiveStart(disk, r, saveFail) ==
    LET d1 == Disk(r.files, disk.dirs, disk.gitignore)
    IN  IF r.threw THEN [disk |-> d1, threw |-> TRUE, printed |-> FALSE]
        ELSE IF Truthy(Field(r.settings, "updatemessage"))
        THEN Only({[disk |-> sv.disk, threw |-> sv.threw, printed |-> FALSE] :
                   sv \in {saveScopedSettings(d1, Without(r.settings, "updatemessage"),
                                              "user", Undefined, saveFail)}})
        ELSE [disk |-> d1, threw |-> FALSE, printed |-> FALSE]

-----------------------------------------------------------------------------
(* The files the operations start from.                                     *)

MaxVersion == 5   \* files carry the versions 0..MaxVersion
MaxSeed == 2      \* runs of generateGuid
MaxFailures == 1  \* scope loads that fail in one resolveSettings
MaxOps == 3       \* operations in one behaviour of SpecRun and SpecIgnore

Module(name) == Obj([name |-> Str(name), kind |-> Str("text"), text |-> Str(name)])

\* A document as the program of schema version v left it.
VersionDoc(v) ==
    CASE v = 1 -> Obj([version |-> Num(1), colorLevel |-> Num(1)])
      [] v = 2 -> Obj([version |-> Num(2), colorLevel |-> Num(3)])
      [] v = 3 -> Obj([version |-> Num(3),
                       customModules |-> Arr(<<Module("team")>>)])
      [] v = CURRENT_VERSION ->
             Obj([version |-> Num(v), colorLevel |-> Num(1),
                  customModules |-> Arr(<<Module("mine")>>),
                  updatemessage |-> Obj([message |-> Str("hi"),
                                         remaining |-> Num(2)])])
      [] OTHER -> Obj([version |-> Num(v), colorLevel |-> Num(v % 4)])

\* A version 1 document: no version field, widget items without ids.
LegacyDoc ==
    Obj([lines |-> Arr(<<Arr(<<Obj([type |-> Str("model")]),
                               Obj([type |-> Str("separator")]),
                               Obj([type |-> Str("git-branch")])>>)>>),
         defaultSeparator |-> Str("|"),
         colorLevel |-> Num(3),
         theme |-> Str("dark")])

\* A current document the schema rejects.
InvalidDoc == Obj([version |-> Num(CURRENT_VERSION), colorLevel |-> Str("high")])

\* A document whose version is given as text.
TextVersionDoc == Obj([version |-> Str("4"), colorLevel |-> Num(1)])

\* A current document that sets colorLevel alone.
PartialDoc(colorLevel) ==
    Obj([version |-> Num(CURRENT_VERSION), colorLevel |-> Num(colorLevel)])

InitialFiles ==
    {MissingFile, MalformedFile, JsonFile(Arr(<<Num(1)>>)), JsonFile(Null),
     JsonFile(LegacyDoc), JsonFile(InvalidDoc), JsonFile(TextVersionDoc),
     JsonFile(PartialDoc(0)), JsonFile(PartialDoc(3))}
    \cup {JsonFile(VersionDoc(v)) : v \in 0..MaxVersion}

\* The files a .gitignore is combined with.
CommonFiles ==
    {MissingFile, MalformedFile, JsonFile(VersionDoc(2)),
     JsonFile(VersionDoc(CURRENT_VERSION))}

\* The settings objects the callers pass to save and create.
EditedSettings ==
    {With(SchemaDefaults, "colorLevel", Num(3)),
     With(With(SchemaDefaults, "version", Num(2)),
          "customModules", Arr(<<Module("new")>>))}

-----------------------------------------------------------------------------
(* The file operations of a call that can fail.                             *)

\* The file operations loadSingleScopeSettings performs on a file.
LoadOps(file) ==
    IF ~Exists(file) THEN {}
    ELSE IF file.kind = "malformed" THEN {"read"}
    ELSE IF ~hasVersion(file.doc) \/ needsMigration(file.doc, CURRENT_VERSION)
    THEN {"read", "write"}
    ELSE {"read"}

LoadFails(fs) ==
    {f \in [Scopes -> {"none", "read", "write"}] :
        /\ \A s \in Scopes : f[s] \in LoadOps(fs[s]) \cup {"none"}
        /\ Cardinality({s \in Scopes : f[s] # "none"}) <= MaxFailures}

\* generateGuid is called when a record without a numeric version holds lines.
Seeds(fs) ==
    IF \E s \in Scopes :
          /\ fs[s].kind = "json" /\ isRecord(fs[s].doc)
          /\ detectVersion(fs[s].doc) = 1
          /\ IsArray(Field(fs[s].doc, "lines"))
    THEN 1..MaxSeed ELSE {1}

\* The file operations saveScopedSettings performs.
SaveFails(disk, scope, createIfMissing) ==
    {"none", "write"}
    \cup (IF createIfMissing # Bool(FALSE) THEN {"mkdir"} ELSE {})
    \cup (IF scope = "local" /\ disk.gitignore.exists THEN {"gitread"} ELSE {})
    \cup (IF scope = "local" /\ disk.gitignore.exists
             /\ disk.gitignore.patterns = 0 THEN {"gitappend"} ELSE {})

\* The save of renderMultipleLines and of main, when there is one.
MessageSaveFails(disk, needed) ==
    IF needed THEN SaveFails(disk, "user", Undefined) ELSE {"none"}

-----------------------------------------------------------------------------
(* The state machine: budget operations are still to be performed.          *)

NoLoad == [s \in Scopes |-> [path |-> "none", ver |-> 0, raised |-> FALSE]]
NoSources == [s \in Scopes |-> Null]

Done(op, scope, threw, load, settings, srcs, printed) ==
    [op |-> op, scope |-> scope, threw |-> threw, load |-> load,
     settings |-> settings, sources |-> srcs, printed |-> printed,
     existed |-> FALSE, fault |-> "none", calls |-> <<>>]


Started == Done("init", "none", FALSE, NoLoad, Undefined, NoSources, FALSE)

\* A directory that holds a file exists.
DirsHold(f, d) == \A s \in Scopes : Exists(f[s]) => d[DirOf(s)]

Init ==
    /\ files \in [Scopes -> InitialFiles]
    /\ dirs \in [Dirs -> BOOLEAN]
    /\ DirsHold(files, dirs)
    /\ gitignore \in {NoGitignore, [exists |-> TRUE, patterns |-> 0]}
    /\ gitignore.exists => \A s \in Scopes : files[s] \in CommonFiles
    /\ last = Started
    /\ budget = 1
    /\ mergeSources = <<>>
    /\ mergeResult = NotCalled
    /\ mig = 0
    /\ walk = 0
    /\ procs = 0
    /\ tui = 0

SetDisk(d) ==
    /\ files' = d.files
    /\ dirs' = d.dirs
    /\ gitignore' = d.gitignore

Here == Disk(files, dirs, gitignore)

Spend ==
    /\ budget > 0
    /\ budget' = budget - 1
    /\ UNCHANGED <<mergeSources, mergeResult, mig, walk, procs, tui>>

Resolve ==
    /\ Spend
    /\ \E fail \in LoadFails(files), seed \in Seeds(files) :
          \E r \in {resolveSettings(files, fail, seed)} :
              /\ files' = r.files
              /\ last' = Done("resolve", "none", r.threw, r.load, r.settings,
                              r.sources, FALSE)
    /\ UNCHANGED <<dirs, gitignore>>

Render ==
    /\ Spend
    /\ \E fail \in LoadFails(files), seed \in Seeds(files) :
          \E r \in {resolveSettings(files, fail, seed)} :
             \E saveFail \in MessageSaveFails(Here,
                                ~r.threw /\ ShowsMessage(r.settings)) :
                \E x \in {renderMultipleLines(Here, r, saveFail)} :
                    /\ SetDisk(x.disk)
                    /\ last' = Done("render", "user", x.threw, r.load,
                                    r.settings, r.sources, x.printed)

StartInteractive ==
    /\ Spend
    /\ \E fail \in LoadFails(files), seed \in Seeds(files) :
          \E r \in {resolveSettings(files, fail, seed)} :
             \E saveFail \in MessageSaveFails(Here,
                                ~r.threw /\ Truthy(Field(r.settings, "updatemessage"))) :
                \E x \in {interactiveStart(Here, r, saveFail)} :
                    /\ SetDisk(x.disk)
                    /\ last' = Done("start", "user", x.threw, r.load,
                                    r.settings, r.sources, FALSE)

Save ==
    /\ Spend
    /\ \E scope \in Scopes, settings \in EditedSettings,
          createIfMissing \in {Undefined, Bool(FALSE)} :
          \E fail \in SaveFails(Here, scope, createIfMissing) :
             \E x \in {saveScopedSettings(Here, settings, scope, createIfMissing, fail)} :
                 /\ SetDisk(x.disk)
                 /\ last' = [Done("save", scope, x.threw, NoLoad, settings,
                                  NoSources, FALSE)
                                EXCEPT !.fault = x.failed,
                                       !.existed = Exists(files[scope]),
                                       !.calls = x.calls]

Create ==
    /\ Spend
    /\ \E scope \in Scopes, settings \in EditedSettings \cup {Undefined} :
          \E fail \in SaveFails(Here, scope, Undefined) :
             \E x \in {createScopeSettings(Here, scope, settings, fail)} :
                 /\ SetDisk(x.disk)
                 /\ last' = [Done("create", scope, x.threw, NoLoad, settings,
                                  NoSources, FALSE)
                                EXCEPT !.fault = x.failed,
                                       !.existed = Exists(files[scope]),
                                       !.calls = x.calls]

Delete ==
    /\ Spend
    /\ \E scope \in Scopes :
          \E fail \in IF Exists(files[scope]) THEN {"none", "unlink"} ELSE {"none"} :
             \E x \in {deleteScopeSettings(Here, scope, fail)} :
                 /\ SetDisk(x.disk)
                 /\ last' = [Done("delete", scope, x.threw, NoLoad, Undefined,
                                  NoSources, FALSE)
                                EXCEPT !.existed = Exists(files[scope]),
                                       !.fault = x.failed]

Next == Resolve \/ Render \/ StartInteractive \/ Save \/ Create \/ Delete

\* Every operation, once, on every disk of Init.
Spec == Init /\ [][Next]_vars

-----------------------------------------------------------------------------
(* Properties of deepMerge, checked under SpecMerge.                        *)

Merged == mergeResult # NotCalled

\* The keys a document defines: the ones it holds a value other than
\* undefined for.
Defined(x) == {k \in OwnKeys(x) : Get(x, k) # Undefined}

\* The last of the merged sources.
Later == mergeSources[Len(mergeSources)]

\* The merge of two objects, key by key.
RECURSIVE KeyWise(_, _)
KeyWise(A, B) ==
    Obj([k \in Defined(A) \cup Defined(B) |->
           IF k \in Defined(A) \cap Defined(B)
              /\ isPlainObject(A.v[k]) /\ isPlainObject(B.v[k])
           THEN KeyWise(A.v[k], B.v[k])
           ELSE IF k \in Defined(B) THEN B.v[k]
           ELSE A.v[k]])

\* C2: deepMerge(A, B) of two plain objects holds exactly the keys A or B
\* defines (holds a value other than undefined for); a key both define with
\* plain objects holds the merge of the two objects, computed the same way;
\* any other key B defines holds B's value; the remaining keys hold A's.
C2_KeyWiseMerge ==
    (Merged /\ Len(mergeSources) = 2)
        => mergeResult = KeyWise(mergeSources[1], mergeSources[2])

\* A merge that recursed twice, kept a key of A alone and took B's leaf.
C2_Witness ==
    /\ Merged /\ Len(mergeSources) = 2
    /\ LET A == mergeSources[1]
           B == mergeSources[2]
       IN  /\ isPlainObject(Field(A, "a")) /\ isPlainObject(Field(B, "a"))
           /\ isPlainObject(Field(Field(A, "a"), "x"))
           /\ isPlainObject(Field(Field(B, "a"), "x"))
           /\ Field(Field(Field(A, "a"), "x"), "x") \in MNums
           /\ Field(Field(Field(B, "a"), "x"), "x") \in MNums
           /\ Field(Field(Field(A, "a"), "x"), "x") # Field(Field(Field(B, "a"), "x"), "x")
           /\ "b" \in Defined(A) \ Defined(B)
           /\ Field(Field(Field(mergeResult, "a"), "x"), "x")
                  = Field(Field(Field(B, "a"), "x"), "x")
           /\ Field(mergeResult, "b") = Field(A, "b")

\* Every array of src sits, unchanged, at the same place of res.
RECURSIVE ArraysKept(_, _)
ArraysKept(src, res) ==
    \A k \in Defined(src) :
        /\ IsArray(src.v[k]) => (k \in Defined(res) /\ res.v[k] = src.v[k])
        /\ isPlainObject(src.v[k]) =>
              /\ k \in Defined(res)
              /\ isPlainObject(res.v[k])
              /\ ArraysKept(src.v[k], res.v[k])

\* C3: an array of the later source replaces what the earlier sources held
\* under its key, whole: the result holds the later array, element for
\* element, whether the earlier value was a shorter or longer array, an
\* object or a primitive.
C3_ArraysReplaced ==
    (Merged /\ isPlainObject(Later)) => ArraysKept(Later, mergeResult)

\* A shorter array replaced a longer one inside a merged object.
C3_Witness ==
    /\ Merged /\ Len(mergeSources) = 2
    /\ LET A == mergeSources[1]
           B == mergeSources[2]
       IN  /\ isPlainObject(Field(A, "a")) /\ isPlainObject(Field(B, "a"))
           /\ Field(Field(A, "a"), "x") = MArr(MaxArrLen)
           /\ Field(Field(B, "a"), "x") = MArr(1)
           /\ Field(Field(mergeResult, "a"), "x") = MArr(1)

\* The keys src holds undefined for are in res as they are in acc.
RECURSIVE UndefinedKept(_, _, _)
UndefinedKept(acc, src, res) ==
    \A k \in OwnKeys(src) :
        /\ src.v[k] = Undefined =>
              IF k \in Defined(acc)
              THEN k \in DOMAIN res.v /\ res.v[k] = acc.v[k]
              ELSE k \notin DOMAIN res.v
        /\ (isPlainObject(src.v[k]) /\ k \in Defined(acc)
              /\ isPlainObject(acc.v[k])) =>
              UndefinedKept(acc.v[k], src.v[k], res.v[k])

\* C4: an undefined source is skipped, deepMerge(X, undefined, Y) is
\* deepMerge(X, Y), and a key the later source holds undefined for keeps
\* the value the earlier sources gave it (and is not added when they gave
\* none).
C4_UndefinedSkipped ==
    Merged =>
        /\ Len(mergeSources) = 3 =>
              /\ mergeSources[2] = Undefined
              /\ mergeResult = deepMerge(<<mergeSources[1], mergeSources[3]>>)
        /\ UndefinedKept(mergeSources[1], Later, mergeResult)

\* deepMerge(X, undefined, Y) where Y holds undefined for keys X defines.
C4_Witness ==
    /\ Merged /\ Len(mergeSources) = 3
    /\ LET X == mergeSources[1]
           Y == mergeSources[3]
       IN  /\ "a" \in OwnKeys(Y) /\ Y.v["a"] = Undefined
           /\ "a" \in Defined(X) /\ mergeResult.v["a"] = X.v["a"]
           /\ "b" \in OwnKeys(Y) /\ Y.v["b"] = Undefined
           /\ "b" \notin Defined(X) /\ "b" \notin DOMAIN mergeResult.v

-----------------------------------------------------------------------------
(* Properties of resolveSettings, checked under Spec: last holds what the   *)
(* call did, files what it left on disk.                                    *)

Resolved == last.op = "resolve"

\* The document the load of scope s returned: the one now in its file when
\* the load read (and, where needed, migrated and wrote back) the file.
Contribution(s) ==
    IF last.load[s].path \in {"unchanged", "migrated"}
    THEN files[s].doc ELSE Undefined

Defines(s, k) == Truthy(Contribution(s)) /\ k \in Defined(Contribution(s))

\* The value of the highest-precedence source that defines k.
ByPrecedence(k) ==
    IF Defines("local", k) THEN Get(Contribution("local"), k)
    ELSE IF Defines("project", k) THEN Get(Contribution("project"), k)
    ELSE IF Defines("user", k) THEN Get(Contribution("user"), k)
    ELSE Field(SchemaDefaults, k)

NoObjectAt(k) ==
    /\ ~isPlainObject(Field(SchemaDefaults, k))
    /\ \A s \in Scopes : Defines(s, k) => ~isPlainObject(Get(Contribution(s), k))

\* C1: for every settings key at which no source holds a plain object, the
\* resolved value is the one of the highest-precedence source that defines
\* the key: local, else project, else user, else the schema default.
C1_Precedence ==
    (Resolved /\ ~last.threw) =>
        \A k \in SchemaKeys :
            NoObjectAt(k) => Field(last.settings, k) = ByPrecedence(k)

\* colorLevel is defined by user and local alone, with different values, and
\* customModules by project alone.
C1_Witness ==
    /\ Resolved /\ ~last.threw
    /\ \A s \in Scopes : Field(Contribution(s), "version") = Num(CURRENT_VERSION)
    /\ Defines("user", "colorLevel") /\ Defines("local", "colorLevel")
    /\ ~Defines("project", "colorLevel")
    /\ Get(Contribution("user"), "colorLevel")
          # Get(Contribution("local"), "colorLevel")
    /\ Field(last.settings, "colorLevel") = Get(Contribution("local"), "colorLevel")
    /\ Defines("project", "customModules")
    /\ ~Defines("user", "customModules") /\ ~Defines("local", "customModules")
    /\ Field(last.settings, "customModules")
          = Get(Contribution("project"), "customModules")
    /\ Field(last.settings, "customModules") # Field(SchemaDefaults, "customModules")

\* The merge of the defaults and the documents the loads returned.
MergedDocument ==
    deepMerge(<<SchemaDefaults, Contribution("user"), Contribution("project"),
                Contribution("local")>>)

\* C5: resolveSettings returns settings only when the merged document passed
\* the schema, and then returns the validated document; when the merged
\* document fails the schema the call throws and returns no settings.
C5_ValidatedOrThrown ==
    Resolved =>
        IF SchemaAccepts(MergedDocument)
        THEN ~last.threw /\ SchemaAccepts(last.settings)
        ELSE last.threw /\ last.settings = Undefined

\* A resolve whose merged document failed the schema.
C5_Witness ==
    /\ Resolved /\ last.threw /\ last.settings = Undefined
    /\ ~SchemaAccepts(MergedDocument)
    /\ \E s \in Scopes : Truthy(Contribution(s))

\* The scopes whose loaded document the schema accepts.
ValidContribution(s) ==
    IF SchemaAccepts(deepMerge(<<SchemaDefaults, Contribution(s)>>))
    THEN Contribution(s) ELSE Undefined

\* C6: a scope file whose content, after migration, fails the schema is
\* left out of the merge and resolveSettings does not fail: it returns the
\* validated merge of the defaults and the other scopes.
C6_InvalidScopeSkipped ==
    (Resolved /\ \E s \in Scopes : ValidContribution(s) # Contribution(s)) =>
        /\ ~last.threw
        /\ last.settings =
              SchemaOutput(deepMerge(<<SchemaDefaults, ValidContribution("user"),
                                       ValidContribution("project"),
                                       ValidContribution("local")>>))

AbsentPaths == {"missing", "readfail", "writefail"}

\* What resolveSettings reports for the scopes.
SourcesOfContributions ==
    [s \in Scopes |-> IF Truthy(Contribution(s)) THEN Str(ScopePath(s)) ELSE Null]

\* C7: a load that finds no file, fails to read the file, or fails to write
\* the migrated document back does not raise and returns absent: the scope
\* adds nothing to the merge, its source is null, and resolveSettings gives
\* what the defaults and the remaining scopes give.
C7_LoadNeverRaises ==
    Resolved =>
        \A s \in Scopes :
            last.load[s].path \in AbsentPaths =>
                /\ ~last.load[s].raised
                /\ last.threw = ~SchemaAccepts(MergedDocument)
                /\ ~last.threw =>
                      /\ last.settings = SchemaOutput(MergedDocument)
                      /\ last.sources[s] = Null
                      /\ last.sources = SourcesOfContributions

\* The write-back of user failed, project is missing, local was loaded.
C7_Witness ==
    /\ Resolved /\ ~last.threw
    /\ last.load["user"].path = "writefail"
    /\ last.load["project"].path = "missing"
    /\ last.load["local"].path = "migrated"
    /\ last.sources["user"] = Null /\ last.sources["project"] = Null
    /\ last.sources["local"] # Null
    /\ Field(last.settings, "colorLevel") = Field(Contribution("local"), "colorLevel")
    /\ Field(last.settings, "colorLevel") # Field(SchemaDefaults, "colorLevel")

\* C8: a scope file that is not JSON is loaded as absent and left on disk as
\* it was, and resolveSettings gives the merge of the defaults and the other
\* scopes.
C8_MalformedLeftAlone ==
    Resolved =>
        \A s \in Scopes :
            last.load[s].path = "malformed" =>
                /\ files[s] = MalformedFile
                /\ last.threw = ~SchemaAccepts(MergedDocument)
                /\ ~last.threw =>
                      /\ last.settings = SchemaOutput(MergedDocument)
                      /\ last.sources[s] = Null

\* project is not JSON, user and local were loaded and merged.
C8_Witness ==
    /\ Resolved /\ ~last.threw
    /\ last.load["project"].path = "malformed"
    /\ files["project"] = MalformedFile
    /\ last.sources["project"] = Null
    /\ last.sources["user"] # Null /\ last.sources["local"] # Null
    /\ Field(last.settings, "colorLevel") = Field(Contribution("local"), "colorLevel")
    /\ Field(last.settings, "colorLevel") # Field(SchemaDefaults, "colorLevel")

\* The loads that read and parsed the file of the scope.
ParsedPaths == {"unchanged", "migrated", "writefail"}

\* C9, as stated: after a load of a file that parses as JSON, whatever it
\* holds, the document in the file has version CURRENT_VERSION.
C9_AlwaysCurrent ==
    Resolved =>
        \A s \in Scopes :
            last.load[s].path \in ParsedPaths =>
                Field(files[s].doc, "version") = Num(CURRENT_VERSION)

\* C9, amended: after a load that returned a document, of a file that holds
\* a JSON object whose version (the numeric version field, 1 without one) is
\* between 1 and CURRENT_VERSION, the document in the file has version
\* CURRENT_VERSION.
C9_CurrentAfterLoad ==
    Resolved =>
        \A s \in Scopes :
            (/\ last.load[s].path \in {"unchanged", "migrated"}
             /\ isRecord(files[s].doc)
             /\ last.load[s].ver \in 1..CURRENT_VERSION) =>
                Field(files[s].doc, "version") = Num(CURRENT_VERSION)

\* A file without version and a file of version 2 were migrated, a file of
\* the current version was left as it was.
C9_Witness ==
    /\ Resolved
    /\ last.load["user"].path = "migrated" /\ last.load["user"].ver = 1
    /\ Field(files["user"].doc, "defaultSeparator") = Str("|")
    /\ last.load["project"].path = "migrated" /\ last.load["project"].ver = 2
    /\ last.load["local"].path = "unchanged"
    /\ \A s \in Scopes : Field(files[s].doc, "version") = Num(CURRENT_VERSION)

-----------------------------------------------------------------------------
(* Sequences of operations: SpecRun performs MaxOps operations, one after   *)
(* the other, on disks whose files are missing, older, current or newer;    *)
(* the project file is missing until an operation writes it.                *)

RunFiles ==
    {MissingFile, JsonFile(VersionDoc(2)), JsonFile(VersionDoc(CURRENT_VERSION)),
     JsonFile(VersionDoc(MaxVersion))}

InitRun ==
    /\ files \in [Scopes -> RunFiles]
    /\ files["project"] = MissingFile
    /\ dirs = [d \in Dirs |-> TRUE]
    /\ gitignore = NoGitignore
    /\ last = Started
    /\ budget = MaxOps
    /\ mergeSources = <<>>
    /\ mergeResult = NotCalled
    /\ mig = 0
    /\ walk = 0
    /\ procs = 0
    /\ tui = 0

SpecRun == InitRun /\ [][Next]_vars

\* The version of the document a file holds.
FileVersion(file) == detectVersion(file.doc)

\* C10, as stated: while a scope file exists, the version of its document
\* never decreases, whatever version the file started with.
C10_NeverDecreases ==
    [][\A s \in Scopes :
           (files[s].kind = "json" /\ files'[s].kind = "json") =>
               FileVersion(files'[s]) >= FileVersion(files[s])]_vars

\* C10, amended: while a scope file exists, the version of its document
\* never decreases as long as it is at most CURRENT_VERSION.
C10_NeverDecreasesUpToCurrent ==
    [][\A s \in Scopes :
           (/\ files[s].kind = "json" /\ files'[s].kind = "json"
            /\ FileVersion(files[s]) <= CURRENT_VERSION) =>
               FileVersion(files'[s]) >= FileVersion(files[s])]_vars

\* After earlier operations, a render loaded the user file at version 2,
\* printed the update message and saved the user file.
C10_Witness ==
    /\ budget < MaxOps - 1
    /\ last.op = "render" /\ last.printed /\ ~last.threw
    /\ last.load["user"].ver = 2
    /\ files["user"].kind = "json"
    /\ FileVersion(files["user"]) = CURRENT_VERSION

-----------------------------------------------------------------------------
(* migrateConfig, one iteration of its loop at a time, and detectVersion.   *)
(* The call is at "call" before it starts, at "loop" at the head of the     *)
(* while loop and at "returned" once it has returned mig.migrated.          *)

\* A version 1 document whose known fields hold values of other types.
MistypedLegacyDoc ==
    Obj([colorLevel |-> Str("3"), flexMode |-> Str("full"),
         globalBold |-> Bool(TRUE), lines |-> Str("none")])

\* A version 2 document with a notice and a field the schema does not know.
NoticeDoc ==
    Obj([version |-> Num(2), colorLevel |-> Num(2), theme |-> Str("dark"),
         updatemessage |-> Obj([message |-> Str("old"), remaining |-> Num(1)])])

\* A version 3 document whose customModules is null.
NullModulesDoc == Obj([version |-> Num(3), customModules |-> Null])

\* The values migrateConfig and detectVersion are called on; the version -1
\* stands for the numbers that are no fromVersion and lie below the target.
MigrateDocs ==
    {Null, Num(3), Str("4"), Bool(TRUE), Arr(<<Num(1)>>), EmptyObj,
     LegacyDoc, MistypedLegacyDoc, TextVersionDoc, NoticeDoc, NullModulesDoc,
     Obj([version |-> Null])}
    \cup {VersionDoc(v) : v \in -1..MaxVersion}

InitMigrate ==
    /\ mig \in {[data |-> d, targetVersion |-> t, seed |-> seed,
                 pc |-> "call", migrated |-> Undefined, currentVersion |-> 0,
                 applied |-> <<>>, detected |-> NotCalled,
                 again |-> NotCalled, loaded |-> NotCalled] :
                d \in MigrateDocs, t \in 1..MaxVersion, seed \in 1..MaxSeed}
    /\ files = NoFiles
    /\ dirs = 0
    /\ gitignore = 0
    /\ last = 0
    /\ budget = 0
    /\ mergeSources = <<>>
    /\ mergeResult = NotCalled
    /\ walk = 0
    /\ procs = 0
    /\ tui = 0

Others == <<files, dirs, gitignore, last, budget, mergeSources, mergeResult,
            walk, procs, tui>>

\* detectVersion(data)
DetectVersion ==
    /\ mig.pc = "call"
    /\ mig.detected = NotCalled
    /\ mig' = [mig EXCEPT !.detected = Num(detectVersion(mig.data))]
    /\ UNCHANGED Others

\* migrateConfig(data, targetVersion), up to the head of the loop.
MigrateEnter ==
    /\ mig.pc = "call"
    /\ mig' = IF ~isRecord(mig.data)
              THEN [mig EXCEPT !.pc = "returned", !.migrated = mig.data]
              ELSE [mig EXCEPT !.pc = "loop", !.migrated = mig.data,
                               !.currentVersion = detectVersion(mig.data)]
    /\ UNCHANGED Others

\* One iteration: the migration found is applied.
MigrateIterate ==
    /\ mig.pc = "loop"
    /\ LoopContinues(mig.currentVersion, mig.targetVersion)
    /\ FindMigration(mig.currentVersion) # 0
    /\ \E i \in {FindMigration(mig.currentVersion)} :
          mig' = [mig EXCEPT !.migrated = Migrate(i, mig.migrated, mig.seed),
                             !.currentVersion = migrations[i].toVersion,
                             !.applied = Append(mig.applied, migrations[i])]
    /\ UNCHANGED Others

\* The loop is left, at its condition or at the break, and the call returns.
MigrateReturn ==
    /\ mig.pc = "loop"
    /\ IF ~LoopContinues(mig.currentVersion, mig.targetVersion)
       THEN mig' = [mig EXCEPT !.pc = "returned"]
       ELSE /\ FindMigration(mig.currentVersion) = 0
            /\ mig' = [mig EXCEPT !.pc = "returned",
                                  !.migrated = OnNoMigration(mig.data, mig.migrated)]
    /\ UNCHANGED Others

\* migrateConfig(result, targetVersion): the call on its own result.
MigrateAgain ==
    /\ mig.pc = "returned"
    /\ mig.again = NotCalled
    /\ \E seed \in 1..MaxSeed :
          mig' = [mig EXCEPT !.again = migrateConfig(mig.migrated,
                                                     mig.targetVersion, seed)]
    /\ UNCHANGED Others

\* loadSingleScopeSettings on a file that holds data.
LoadDocument ==
    /\ mig.pc = "returned"
    /\ mig.loaded = NotCalled
    /\ mig' = [mig EXCEPT !.loaded =
                  loadSingleScopeSettings(JsonFile(mig.data), "none", mig.seed).ret]
    /\ UNCHANGED Others

NextMigrate ==
    \/ DetectVersion \/ MigrateEnter \/ MigrateIterate \/ MigrateReturn
    \/ MigrateAgain \/ LoadDocument

SpecMigrate == InitMigrate /\ [][NextMigrate]_vars

\* Every call that can take a step takes it.
SpecMigrateFair == SpecMigrate /\ WF_vars(NextMigrate)

Returned == mig.pc = "returned"

\* The migrations whose fromVersion is v.
From(v) == {i \in DOMAIN migrations : migrations[i].fromVersion = v}

\* The steps of the chain from version v up to CURRENT_VERSION, in order.
ChainFrom(v) ==
    [k \in 1..(CURRENT_VERSION - v) |->
        migrations[CHOOSE i \in From(v + k - 1) : TRUE]]

\* C11: the registry is a chain: every version v with 1 <= v <
\* CURRENT_VERSION is the fromVersion of exactly one migration; and
\* migrateConfig(doc, CURRENT_VERSION) on an object document whose detected
\* version is such a v applies the steps from v, v + 1, ... in that order,
\* each once, and returns a document whose version is CURRENT_VERSION.
C11_Chain ==
    /\ \A v \in 1..(CURRENT_VERSION - 1) : Cardinality(From(v)) = 1
    /\ (/\ Returned
        /\ isRecord(mig.data)
        /\ mig.targetVersion = CURRENT_VERSION
        /\ detectVersion(mig.data) \in 1..(CURRENT_VERSION - 1))
           => /\ mig.applied = ChainFrom(detectVersion(mig.data))
              /\ Field(mig.migrated, "version") = Num(CURRENT_VERSION)
              /\ mig.migrated = migrateConfig(mig.data, CURRENT_VERSION, mig.seed)

\* A version 2 document was taken to CURRENT_VERSION in two steps.
C11_Witness ==
    /\ Returned
    /\ mig.data = NoticeDoc
    /\ mig.targetVersion = CURRENT_VERSION
    /\ Len(mig.applied) = 2
    /\ mig.applied[1].fromVersion = 2 /\ mig.applied[2].fromVersion = 3
    /\ Field(mig.migrated, "version") = Num(CURRENT_VERSION)

\* C12: migrateConfig on a document that is already at the target version
\* applies no step and returns a document with the same fields and values;
\* and applying migrateConfig to its own result changes nothing:
\* migrateConfig(migrateConfig(d, T), T) = migrateConfig(d, T) for every d.
C12_Idempotent ==
    /\ (Returned /\ detectVersion(mig.data) = mig.targetVersion)
           => (mig.applied = <<>> /\ mig.migrated = mig.data)
    /\ (Returned /\ mig.again # NotCalled) => mig.again = mig.migrated

\* A legacy document went through the three steps, and the second call
\* (with other identifiers at hand) returned the migrated document as it was.
C12_Witness ==
    /\ Returned
    /\ mig.data = LegacyDoc
    /\ mig.targetVersion = CURRENT_VERSION
    /\ Len(mig.applied) = 3
    /\ mig.again = mig.migrated
    /\ mig.migrated # mig.data

\* The document after the steps of a list of registry entries, in order.
RECURSIVE AfterSteps(_, _, _)
AfterSteps(data, steps, seed) ==
    IF steps = <<>> THEN data
    ELSE AfterSteps(Migrate(CHOOSE i \in DOMAIN migrations :
                                migrations[i] = Head(steps), data, seed),
                    Tail(steps), seed)

\* The call returned while its working version was below the target.
StoppedEarly ==
    /\ Returned
    /\ isRecord(mig.data)
    /\ mig.currentVersion < mig.targetVersion

\* C13: migrateConfig terminates without raising on every input; when no
\* migration has fromVersion equal to the working version (version 0, a
\* version off the chain, the end of the chain below the target) it stops
\* and returns the document as migrated so far, and the load returns that
\* document, as it is, for the merge.
C13_StopsAndReturns ==
    /\ [](StoppedEarly =>
             /\ FindMigration(mig.currentVersion) = 0
             /\ mig.migrated = AfterSteps(mig.data, mig.applied, mig.seed))
    /\ []((StoppedEarly /\ mig.targetVersion = CURRENT_VERSION
           /\ mig.loaded # NotCalled) => mig.loaded = mig.migrated)
    /\ <>Returned

\* A version 0 document came back from migrateConfig untouched, below the
\* target, and the load returned it.
C13_Witness ==
    /\ StoppedEarly
    /\ mig.data = VersionDoc(0)
    /\ mig.targetVersion = CURRENT_VERSION
    /\ mig.applied = <<>>
    /\ mig.loaded = VersionDoc(0)

\* The settings the v1 -> v2 step copies, with the type it copies them at;
\* the step builds its result from these and from lines, and leaves every
\* other field of its input behind.
V1Known ==
    [flexMode |-> "string", compactThreshold |-> "number",
     colorLevel |-> "number", defaultSeparator |-> "string",
     defaultPadding |-> "string", inheritSeparatorColors |-> "boolean",
     overrideBackgroundColor |-> "string",
     overrideForegroundColor |-> "string", globalBold |-> "boolean"]

\* The fields of the input a step is not meant to change are in its output
\* with the same value: v1 -> v2 rebuilds the document from the known
\* settings; v2 -> v3 sets version and updatemessage; v3 -> v4 sets version
\* and a customModules that is null or missing.
Carried(step, in, out) ==
    CASE step.fromVersion = 1 ->
             \A k \in DOMAIN V1Known :
                 TypeOf(Field(in, k)) = V1Known[k] => Field(out, k) = Field(in, k)
      [] step.fromVersion = 2 ->
             \A k \in OwnKeys(in) \ {"version", "updatemessage"} :
                 Field(out, k) = Field(in, k)
      [] step.fromVersion = 3 ->
             \A k \in OwnKeys(in) \ {"version"} :
                 \/ k = "customModules" /\ Field(in, k) \in {Undefined, Null}
                 \/ Field(out, k) = Field(in, k)

\* C14: every registered migration step returns a document whose version is
\* the step's toVersion and in which every input field the step is not meant
\* to change has the value it had in the input.
C14_StepsCarryOver ==
    [][mig'.applied # mig.applied =>
          \E step \in {mig'.applied[Len(mig'.applied)]} :
             /\ Field(mig'.migrated, "version") = Num(step.toVersion)
             /\ Carried(step, mig.migrated, mig'.migrated)]_vars

\* The v2 -> v3 step ran on a document with an unknown field and an old
\* notice: the field is kept, the notice replaced.
C14_Witness ==
    /\ mig.pc = "loop"
    /\ mig.data = NoticeDoc
    /\ Len(mig.applied) = 1
    /\ Field(mig.migrated, "version") = Num(3)
    /\ Field(mig.migrated, "theme") = Str("dark")
    /\ Field(mig.migrated, "updatemessage") # Field(mig.data, "updatemessage")

\* C15: detectVersion returns 1 for every input that is not an object
\* (null, an array, a string, a number, a boolean) and for every object
\* whose version is missing or not a number; for an object with a numeric
\* version it returns that number.
C15_DetectVersion ==
    mig.detected # NotCalled =>
        IF mig.data.t = "object" /\ "version" \in DOMAIN mig.data.v
           /\ mig.data.v["version"].t = "number"
        THEN mig.detected = mig.data.v["version"]
        ELSE mig.detected = Num(1)

\* detectVersion was called on a document whose version is the text "4".
C15_Witness ==
    /\ mig.data = TextVersionDoc
    /\ mig.detected = Num(1)

-----------------------------------------------------------------------------
(* Properties of the sources map and of the written files, under Spec.      *)

\* The document of scope s when the sources map names the scope.
Sourced(s) == IF last.sources[s] # Null THEN Contribution(s) ELSE Undefined

\* C16: in the result of resolveSettings, sources[s] is the file path of
\* scope s exactly when the document loaded from s was included in the merge
\* that gave the settings, and is null exactly when scope s contributed no
\* document; a missing, unreadable or unparseable file contributes none.
C16_SourcesNameContributors ==
    (Resolved /\ ~last.threw) =>
        /\ \A s \in Scopes :
              /\ last.sources[s] \in {Null, Str(ScopePath(s))}
              /\ (last.sources[s] = Str(ScopePath(s)))
                     <=> ~SkipSource(Contribution(s))
              /\ last.load[s].path \in {"missing", "readfail", "malformed"}
                     => last.sources[s] = Null
        /\ last.settings =
              SchemaOutput(deepMerge(<<SchemaDefaults, Sourced("user"),
                                       Sourced("project"), Sourced("local")>>))

\* user holds JSON null and project is not JSON: both sources are null;
\* local was loaded and merged: its source is its path.
C16_Witness ==
    /\ Resolved /\ ~last.threw
    /\ files["user"] = JsonFile(Null) /\ last.sources["user"] = Null
    /\ last.load["project"].path = "malformed" /\ last.sources["project"] = Null
    /\ last.sources["local"] = Str(ScopePath("local"))
    /\ Field(last.settings, "colorLevel") = Field(Contribution("local"), "colorLevel")
    /\ Field(last.settings, "colorLevel") # Field(SchemaDefaults, "colorLevel")

\* C17: every file written by saveScopedSettings, and so by
\* createScopeSettings, holds a document whose version is CURRENT_VERSION,
\* whatever version the settings argument carried.
C17_WrittenAtCurrent ==
    (last.op \in {"save", "create"} /\ ~last.threw) =>
        /\ files[last.scope].kind = "json"
        /\ Field(files[last.scope].doc, "version") = Num(CURRENT_VERSION)

\* Settings that carry version 2 were saved.
C17_Witness ==
    /\ last.op = "save" /\ ~last.threw
    /\ Field(last.settings, "version") = Num(2)
    /\ Field(files[last.scope].doc, "version") = Num(CURRENT_VERSION)
    /\ Field(files[last.scope].doc, "customModules")
           = Field(last.settings, "customModules")

-----------------------------------------------------------------------------
(* The round trip of a save and a resolve, under SpecRun.                   *)

\* The step is a resolveSettings that read the file the save before it
\* wrote.
ResolveAfterSave ==
    /\ last.op = "save" /\ ~last.threw
    /\ last'.op = "resolve"
    /\ last'.load[last.scope].path \in {"unchanged", "migrated"}

\* The resolved settings are the saved ones, but for the version.
SameButVersion(resolved, S) ==
    /\ Field(resolved, "version") = Num(CURRENT_VERSION)
    /\ \A k \in (OwnKeys(resolved) \cup OwnKeys(S)) \ {"version"} :
          Field(resolved, k) = Field(S, k)

\* The load of scope t gave the merge a document.
Contributes(t) ==
    /\ last'.load[t].path \in {"unchanged", "migrated"}
    /\ Truthy(files'[t].doc)

\* C18, as stated: saveScopedSettings(S, scope) followed by a fresh
\* resolveSettings() yields settings equal to S in every field except
\* version, which is CURRENT_VERSION, whatever the other two scopes hold.
C18_RoundTripAnyScopes ==
    [][ResolveAfterSave =>
          (~last'.threw /\ SameButVersion(last'.settings, last.settings))]_vars

\* C18, amended: saveScopedSettings(S, scope) followed by a fresh
\* resolveSettings() yields settings equal to S in every field except
\* version, which is CURRENT_VERSION, when the other two scopes contribute
\* no document to the merge.
C18_RoundTripAlone ==
    [][(ResolveAfterSave /\ \A t \in Scopes \ {last.scope} : ~Contributes(t)) =>
          (~last'.threw /\ SameButVersion(last'.settings, last.settings))]_vars

\* Settings carrying version 2 and a custom module were saved to user, the
\* other scopes are empty, and the resolve after the save returned them at
\* CURRENT_VERSION.
C18_Witness ==
    /\ last.op = "resolve" /\ ~last.threw
    /\ budget = MaxOps - 2
    /\ files["project"] = MissingFile /\ files["local"] = MissingFile
    /\ last.load["user"].path = "unchanged"
    /\ \E S \in EditedSettings :
          /\ Field(S, "version") = Num(2)
          /\ files["user"] = JsonFile(ToJSON(Stamp(S)))
          /\ SameButVersion(last.settings, S)

-----------------------------------------------------------------------------
(* Properties of scopeHasSettings and deleteScopeSettings, under Spec.      *)

\* The step is a deleteScopeSettings.
Deletes == last'.op = "delete"

\* C19: scopeHasSettings(scope) is true exactly when the file of the scope
\* exists; after a deleteScopeSettings(scope) that completes,
\* scopeHasSettings(scope) is false; deleteScopeSettings on a scope whose
\* file does not exist completes without error and changes nothing.
C19_DeleteThenAbsent ==
    [][/\ \A s \in Scopes :
             scopeHasSettings(Here, s) <=> files[s].kind \in {"json", "malformed"}
       /\ (Deletes /\ ~last'.threw) =>
             ~scopeHasSettings(Disk(files', dirs', gitignore'), last'.scope)
       /\ (Deletes /\ files[last'.scope] = MissingFile) =>
             /\ ~last'.threw
             /\ files' = files /\ dirs' = dirs /\ gitignore' = gitignore]_vars

\* A delete removed a file that existed.
C19_Witness ==
    /\ last.op = "delete" /\ ~last.threw
    /\ last.existed
    /\ ~scopeHasSettings(Here, last.scope)

-----------------------------------------------------------------------------
(* Sequences of operations in a project that has no local settings file    *)
(* yet, and whose .gitignore, if there is one, lacks the local-settings     *)
(* pattern.                                                                 *)

InitIgnore ==
    /\ files \in [Scopes -> {MissingFile, JsonFile(VersionDoc(CURRENT_VERSION))}]
    /\ files["project"] = MissingFile /\ files["local"] = MissingFile
    /\ dirs = [d \in Dirs |-> TRUE]
    /\ gitignore \in {NoGitignore, [exists |-> TRUE, patterns |-> 0]}
    /\ last = Started
    /\ budget = MaxOps
    /\ mergeSources = <<>>
    /\ mergeResult = NotCalled
    /\ mig = 0
    /\ walk = 0
    /\ procs = 0
    /\ tui = 0

SpecIgnore == InitIgnore /\ [][Next]_vars

\* The step is a save to the local scope that completed, the update of
\* .gitignore included.
LocalSave ==
    /\ last'.op \in {"save", "create"}
    /\ last'.scope = "local"
    /\ ~last'.threw
    /\ last'.fault = "none"

\* C20: given an existing .gitignore that does not contain the
\* local-settings pattern, a save to the local scope appends the pattern
\* once; further local saves, and every other operation, leave .gitignore
\* as it is, so the pattern never appears twice.
C20_PatternOnce ==
    [][/\ (LocalSave /\ gitignore.exists /\ gitignore.patterns = 0)
              => gitignore'.patterns = 1
       /\ gitignore.patterns = 1 => gitignore' = gitignore
       /\ gitignore'.patterns <= 1
       /\ gitignore'.exists = gitignore.exists
       /\ gitignore' # gitignore
              => (last'.op \in {"save", "create"} /\ last'.scope = "local")]_vars

\* A save to the local scope found the local file an earlier save had
\* written, and .gitignore holds the pattern once.
C20_Witness ==
    /\ last.op = "save" /\ last.scope = "local" /\ ~last.threw
    /\ last.fault = "none"
    /\ last.existed
    /\ gitignore = [exists |-> TRUE, patterns |-> 1]

-----------------------------------------------------------------------------
(* What a save does to .gitignore and to the directories, under Spec.       *)

\* The step is a saveScopedSettings, called directly or by
\* createScopeSettings.
Saves == last'.op \in {"save", "create"}

\* The file-system calls that look at or change .gitignore.
GitCalls == {"gitexists", "gitread", "gitappend"}

Range(seq) == {seq[i] : i \in DOMAIN seq}

\* The positions of the calls of a sequence that are among cs.
Positions(calls, cs) == {i \in DOMAIN calls : calls[i] \in cs}

\* C21: a save to the local scope of a project without .gitignore does not
\* create one; a save looks at or changes .gitignore only after it has
\* written the local settings file; a save to the user or the project scope
\* neither reads nor changes .gitignore.
C21_GitignoreFrame ==
    [][Saves =>
          /\ ~gitignore.exists => gitignore' = gitignore
          /\ last'.scope \in {"user", "project"} =>
                (gitignore' = gitignore /\ Positions(last'.calls, GitCalls) = {})
          /\ Positions(last'.calls, GitCalls) # {} =>
                /\ last'.scope = "local"
                /\ files'["local"].kind = "json"
                /\ \A i \in Positions(last'.calls, GitCalls) :
                      \E j \in Positions(last'.calls, {"write"}) : j < i
          /\ gitignore' # gitignore => "gitappend" \in Range(last'.calls)]_vars

\* A local save in a project without .gitignore wrote the file, looked for
\* .gitignore and left it missing.
C21_Witness ==
    /\ last.op = "save" /\ last.scope = "local" /\ ~last.threw
    /\ last.calls = <<"mkdir", "write", "gitexists">>
    /\ gitignore = NoGitignore
    /\ files["local"].kind = "json"

\* C22: a failure while reading or appending .gitignore does not make a
\* save to the local scope fail: the settings file has been written by then
\* and saveScopedSettings completes.
C22_GitignoreFailureSwallowed ==
    (last.op \in {"save", "create"} /\ last.fault \in {"gitread", "gitappend"}) =>
        /\ ~last.threw
        /\ last.scope = "local"
        /\ files["local"].kind = "json"
        /\ Field(files["local"].doc, "version") = Num(CURRENT_VERSION)
        /\ \E j \in Positions(last.calls, {"write"}) :
              \A i \in Positions(last.calls, GitCalls) : j < i

\* The append to .gitignore failed after the local file was written.
C22_Witness ==
    /\ last.op = "save" /\ last.fault = "gitappend" /\ ~last.threw
    /\ last.calls = <<"mkdir", "write", "gitexists", "gitread", "gitappend">>
    /\ gitignore = [exists |-> TRUE, patterns |-> 0]
    /\ Field(files["local"].doc, "colorLevel") = Field(last.settings, "colorLevel")

\* C23: a failure on the write path is not swallowed: when mkdir, writeFile
\* or unlink fails, saveScopedSettings, createScopeSettings and
\* deleteScopeSettings reject, and they reject for no other reason; a save
\* with createIfMissing = false into a directory that does not exist fails
\* and does not create the directory; after a failed write .gitignore is
\* neither looked at nor changed and the files are as before.
C23_WriteFailuresPropagate ==
    [][/\ (Saves \/ Deletes) =>
             (last'.threw <=> last'.fault \in {"mkdir", "write", "unlink"})
       /\ (Saves /\ last'.fault \in {"mkdir", "write"}) =>
             /\ files' = files
             /\ gitignore' = gitignore
             /\ Positions(last'.calls, GitCalls) = {}
       /\ (Deletes /\ last'.fault = "unlink") => files' = files
       /\ (Saves /\ "mkdir" \notin Range(last'.calls)
                 /\ ~dirs[DirOf(last'.scope)]) =>
             /\ last'.threw /\ last'.fault = "write"
             /\ dirs' = dirs]_vars

\* A save with createIfMissing = false to the local scope of a project with
\* .gitignore failed for want of the directory and left everything alone.
C23_Witness ==
    /\ last.op = "save" /\ last.scope = "local" /\ last.threw
    /\ last.calls = <<"write">> /\ last.fault = "write"
    /\ ~dirs["project"]
    /\ gitignore = [exists |-> TRUE, patterns |-> 0]
    /\ files["local"] = MissingFile

-----------------------------------------------------------------------------
(* Path resolution: getGitRoot and getProjectRoot (scoped-config.ts), and   *)
(* getClaudeConfigDir (claude-settings.ts). The directories of interest are *)
(* the working directory and its ancestors; each is named by its depth      *)
(* below the filesystem root, which has depth 0.                            *)

MaxDepth == 3   \* the working directory is at depth 0..MaxDepth

\* path.parse(currentDir).root
FsRoot == 0

\* path.dirname(dir)
dirname(dir) == IF dir = FsRoot THEN FsRoot ELSE dir - 1

\* fs.existsSync(claudeDir) && fs.statSync(claudeDir).isDirectory(); claude
\* gives, for each directory, what its entry .claude is.
IsClaudeDir(claude, dir) == claude[dir] = "dir"

\* getGitRoot(): repo is the top of the repository that holds the working
\* directory (null outside a repository); the subprocess may fail.
getGitRoot(repo, probeFails) == IF probeFails THEN Null ELSE repo

\* if (gitRoot && currentDir === gitRoot) break
AtGitRootNever(gitRoot, currentDir) == FALSE
AtGitRoot(gitRoot, currentDir) == gitRoot # Null /\ currentDir = gitRoot.v

\* return gitRoot ?? process.cwd()
FallbackCwd(gitRoot, cwd) == cwd
Fallback(gitRoot, cwd) == IF gitRoot # Null THEN gitRoot.v ELSE cwd

\* The while loop of getProjectRoot and the fallback after it.
RECURSIVE WalkFrom(_, _, _, _)
WalkFrom(currentDir, cwd, claude, gitRoot) ==
    IF currentDir # FsRoot
    THEN IF IsClaudeDir(claude, currentDir) THEN currentDir
         ELSE IF AtGitRoot(gitRoot, currentDir) THEN Fallback(gitRoot, cwd)
         ELSE WalkFrom(dirname(currentDir), cwd, claude, gitRoot)
    ELSE Fallback(gitRoot, cwd)

getProjectRoot(cwd, claude, gitRoot) == WalkFrom(cwd, cwd, claude, gitRoot)

\* path.resolve(p): a relative path is taken from the working directory.
Absolute(p) == Len(p) > 0 /\ SubSeq(p, 1, 1) = "/"
resolve(p) == IF Absolute(p) THEN p ELSE "<cwd>/" \o p

HomeClaude == "~/.claude"

\* getClaudeConfigDir(): env is CLAUDE_CONFIG_DIR, kind what is at the
\* resolved path; statFails: fs.statSync throws.
getClaudeConfigDirStrict(env, kind, statFails) ==
    IF Truthy(env) /\ kind = "dir" /\ ~statFails
    THEN resolve(env.v) ELSE HomeClaude
getClaudeConfigDir(env, kind, statFails) ==
    IF Truthy(env)
    THEN IF kind # "none"
         THEN IF ~statFails /\ kind = "dir" THEN resolve(env.v) ELSE HomeClaude
         ELSE resolve(env.v)
    ELSE HomeClaude

\* path.join(getClaudeConfigDir(), 'statusline')
getUserSettingsDir(env, kind, statFails) ==
    getClaudeConfigDir(env, kind, statFails) \o "/statusline"

\* process.env.CLAUDE_CONFIG_DIR: unset, empty, an absolute path, a relative one
EnvSettings == {"<unset>", "", "/custom", "custom"}

NoConfig == [env |-> Undefined, kind |-> "none", statFails |-> FALSE,
             dir |-> "", after |-> "none", home |-> -1]

\* The directory at depth d above or at the working directory, as a path.
RECURSIVE DirPath(_)
DirPath(d) == IF d = FsRoot THEN "" ELSE DirPath(d - 1) \o "/d"

\* os.homedir(): the directory at depth home of the chain, or one that is
\* not an ancestor of the working directory (home < 0).
HomePath(home) == IF home < 0 THEN "/home/u" ELSE DirPath(home)

\* getSettingsPathForScope(scope), root being getProjectRoot() and userDir
\* getUserSettingsDir().
getSettingsPathForScope(scope, root, userDir) ==
    CASE scope = "user" -> userDir \o "/settings.json"
      [] scope = "project" ->
             DirPath(root) \o "/.claude/statusline" \o "/settings.json"
      [] scope = "local" ->
             DirPath(root) \o "/.claude/statusline" \o "/settings.local.json"

\* The file a path names, with ~ and the working directory spelled out.
RealPath(p, home, cwd) ==
    IF SubSeq(p, 1, 1) = "~" THEN HomePath(home) \o SubSeq(p, 2, Len(p))
    ELSE IF Len(p) >= 5 /\ SubSeq(p, 1, 5) = "<cwd>"
    THEN DirPath(cwd) \o SubSeq(p, 6, Len(p))
    ELSE p

\* getAllScopePaths()
getAllScopePaths(root, userDir, home, cwd) ==
    [scope \in Scopes |->
        RealPath(getSettingsPathForScope(scope, root, userDir), home, cwd)]

InitPath ==
    /\ walk \in {[cwd |-> c, claude |-> cl, repo |-> r, pc |-> "call",
                  gitRoot |-> Null, currentDir |-> c, examined |-> <<>>,
                  root |-> c, config |-> NoConfig] :
                 c \in 0..MaxDepth,
                 cl \in [0..MaxDepth -> {"none", "dir", "file"}],
                 r \in {Null} \cup {Num(d) : d \in 0..MaxDepth}}
    /\ walk.repo # Null => walk.repo.v <= walk.cwd
    /\ files = NoFiles
    /\ dirs = 0
    /\ gitignore = 0
    /\ last = 0
    /\ budget = 0
    /\ mergeSources = <<>>
    /\ mergeResult = NotCalled
    /\ mig = 0
    /\ procs = 0
    /\ tui = 0

NotPath == <<files, dirs, gitignore, last, budget, mergeSources, mergeResult,
             mig, procs, tui>>

\* const gitRoot = getGitRoot(); let currentDir = process.cwd()
ProbeGit ==
    /\ walk.pc = "call"
    /\ \E probeFails \in BOOLEAN :
          walk' = [walk EXCEPT !.pc = "walk",
                               !.gitRoot = getGitRoot(walk.repo, probeFails)]
    /\ UNCHANGED NotPath

\* One iteration of the loop: .claude of currentDir is examined.
WalkStep ==
    /\ walk.pc = "walk"
    /\ walk.currentDir # FsRoot
    /\ walk' = IF IsClaudeDir(walk.claude, walk.currentDir)
               THEN [walk EXCEPT !.pc = "returned", !.root = walk.currentDir,
                                 !.examined = Append(@, walk.currentDir)]
               ELSE IF AtGitRoot(walk.gitRoot, walk.currentDir)
               THEN [walk EXCEPT !.pc = "fallback",
                                 !.examined = Append(@, walk.currentDir)]
               ELSE [walk EXCEPT !.currentDir = dirname(walk.currentDir),
                                 !.examined = Append(@, walk.currentDir)]
    /\ UNCHANGED NotPath

\* The loop condition fails at the filesystem root.
WalkEnd ==
    /\ walk.pc = "walk"
    /\ walk.currentDir = FsRoot
    /\ walk' = [walk EXCEPT !.pc = "fallback"]
    /\ UNCHANGED NotPath

\* return gitRoot ?? process.cwd()
WalkFallback ==
    /\ walk.pc = "fallback"
    /\ walk' = [walk EXCEPT !.pc = "returned",
                            !.root = Fallback(walk.gitRoot, walk.cwd)]
    /\ UNCHANGED NotPath

\* getUserSettingsDir() in an environment drawn here.
UserSettingsDir ==
    /\ walk.pc = "returned"
    /\ walk.config = NoConfig
    /\ \E set \in EnvSettings, home \in -1..MaxDepth,
          kind \in {"none", "dir", "file"}, statFails \in BOOLEAN :
       \E env \in {IF set = "<unset>" THEN Undefined ELSE Str(set)} :
          /\ statFails => kind # "none"
          /\ walk' = [walk EXCEPT !.config =
                         [env |-> env, kind |-> kind, statFails |-> statFails,
                          dir |-> getUserSettingsDir(env, kind, statFails),
                          after |-> kind, home |-> home]]
    /\ UNCHANGED NotPath

NextPath == ProbeGit \/ WalkStep \/ WalkEnd \/ WalkFallback \/ UserSettingsDir

SpecPath == InitPath /\ [][NextPath]_vars

\* Every call that can take a step takes it.
SpecPathFair == SpecPath /\ WF_vars(NextPath)

RootReturned == walk.pc \in {"returned"}

\* The directories from the working directory upward that hold a .claude
\* directory, down to the git root when one is known.
Marked ==
    {d \in (IF walk.gitRoot # Null THEN walk.gitRoot.v ELSE FsRoot)..walk.cwd :
        walk.claude[d] = "dir"}

Nearest(ds) == CHOOSE d \in ds : \A e \in ds : e <= d

\* C24: getProjectRoot returns the nearest directory, going upward from the
\* working directory, that contains a .claude directory, and neither
\* examines nor returns a directory above the git root: with a git root
\* known, the result and every directory examined lie between the git root
\* and the working directory.
C24_NearestBelowGitRoot ==
    RootReturned =>
        /\ Marked # {} => walk.root = Nearest(Marked)
        /\ walk.gitRoot # Null =>
              /\ walk.root \in walk.gitRoot.v..walk.cwd
              /\ \A d \in Range(walk.examined) : d \in walk.gitRoot.v..walk.cwd

\* C25: when no directory of the searched range holds a .claude directory,
\* getProjectRoot returns the git root if one is known and the working
\* directory otherwise; and every call returns (the upward walk terminates).
C25_FallbackAndTermination ==
    /\ [](RootReturned /\ Marked = {} =>
              walk.root = IF walk.gitRoot # Null THEN walk.gitRoot.v
                          ELSE walk.cwd)
    /\ <>RootReturned

\* Nothing marked from a working directory two levels below the git root:
\* the walk examined three directories and the git root was returned.
C25_Witness ==
    /\ RootReturned
    /\ Marked = {}
    /\ walk.gitRoot # Null
    /\ walk.cwd = walk.gitRoot.v + 2
    /\ Len(walk.examined) = 3
    /\ walk.root = walk.gitRoot.v

\* C26: when the git-root probe fails (gitRoot is null: not a repository,
\* subprocess error or timeout), getProjectRoot returns the current working
\* directory.
C26_ProbeFailureReturnsCwd ==
    RootReturned /\ walk.gitRoot = Null => walk.root = walk.cwd

ConfigResolved == walk.config.dir # ""

\* C27: the user-scope root honours CLAUDE_CONFIG_DIR: a path that does not
\* exist is used as given, an existing directory is used, and an existing
\* non-directory, an unset or an empty variable give the default directory
\* under the home directory (so does a stat that fails); the resolver
\* creates nothing at the path.
C27_EnvOverride ==
    ConfigResolved =>
        LET c == walk.config
            given == c.env.t = "string" /\ c.env.v # ""
            path == IF SubSeq(c.env.v, 1, 1) = "/" THEN c.env.v
                    ELSE "<cwd>/" \o c.env.v
        IN  /\ given /\ c.kind = "none" => c.dir = path \o "/statusline"
            /\ given /\ c.kind = "dir" /\ ~c.statFails =>
                  c.dir = path \o "/statusline"
            /\ ~given \/ c.kind = "file" \/ c.statFails =>
                  c.dir = "~/.claude/statusline"
            /\ c.after = c.kind

\* A relative CLAUDE_CONFIG_DIR that names nothing yet: the path is used and
\* still names nothing afterwards.
C27_Witness ==
    /\ ConfigResolved
    /\ walk.config.env.t = "string"
    /\ walk.config.env.v = "custom"
    /\ walk.config.kind = "none"
    /\ walk.config.dir = "<cwd>/custom/statusline"
    /\ walk.config.after = "none"

-----------------------------------------------------------------------------
(* The interactive editor: useScopedSettings and the start-up effect of App. *)
(* last.scope holds saveScope, last.settings and last.sources hold resolved. *)

\* setSaveScope('user') in place of the selection
DefaultSaveScopeUser(sources) == "user"

\* if (result.sources.local) ... else if (result.sources.project) ... else
DefaultSaveScope(sources) ==
    IF Truthy(sources["local"]) THEN "local"
    ELSE IF Truthy(sources["project"]) THEN "project"
    ELSE "user"

\* loadScopedSettings(...) settled: resolved and saveScope are set when it
\* fulfilled, and keep their values when it rejected.
Settled(op, r) ==
    IF r.threw THEN [last EXCEPT !.op = op, !.threw = TRUE]
    ELSE Done(op, DefaultSaveScope(r.sources), FALSE, r.load, r.settings,
              r.sources, FALSE)

TuiFiles ==
    {MissingFile, MalformedFile, JsonFile(InvalidDoc),
     JsonFile(VersionDoc(CURRENT_VERSION))}

\* useState<SettingsScope>('user'), useState(null)
InitTui ==
    /\ files \in [Scopes -> TuiFiles]
    /\ dirs \in [Dirs -> BOOLEAN]
    /\ DirsHold(files, dirs)
    /\ gitignore = NoGitignore
    /\ last = Done("init", "user", FALSE, NoLoad, Undefined, NoSources, FALSE)
    /\ budget = 2
    /\ mergeSources = <<>>
    /\ mergeResult = NotCalled
    /\ mig = 0
    /\ walk = 0
    /\ procs = 0
    /\ tui = 0

\* App: the effect that runs once after the first render.
AppStart ==
    /\ last.op = "init"
    /\ Spend
    /\ \E fail \in LoadFails(files), seed \in Seeds(files) :
          \E r \in {resolveSettings(files, fail, seed)} :
              /\ files' = r.files
              /\ last' = Settled("appstart", r)
    /\ UNCHANGED <<dirs, gitignore>>

\* useScopedSettings: loadSettings, on mount and as reload.
LoadSettings ==
    /\ Spend
    /\ \E fail \in LoadFails(files), seed \in Seeds(files) :
          \E r \in {resolveSettings(files, fail, seed)} :
              /\ files' = r.files
              /\ last' = Settled("load", r)
    /\ UNCHANGED <<dirs, gitignore>>

\* The scope the user picks in the editor.
SetSaveScope ==
    /\ Spend
    /\ \E scope \in Scopes :
          /\ scope # last.scope
          /\ last' = [last EXCEPT !.op = "choose", !.scope = scope,
                                  !.threw = FALSE]
    /\ UNCHANGED <<files, dirs, gitignore>>

\* useScopedSettings: saveToCurrentScope, the save and then the reload.
SaveToCurrentScope ==
    /\ last.settings.t # "undefined"
    /\ Spend
    /\ \E fail \in SaveFails(Here, last.scope, Undefined) :
          \E x \in {saveScopedSettings(Here, last.settings, last.scope,
                                       Undefined, fail)} :
             IF x.threw
             THEN /\ SetDisk(x.disk)
                  /\ last' = [last EXCEPT !.op = "savefailed", !.threw = TRUE]
             ELSE \E lf \in LoadFails(x.disk.files),
                     seed \in Seeds(x.disk.files) :
                     \E r \in {resolveSettings(x.disk.files, lf, seed)} :
                         /\ files' = r.files
                         /\ dirs' = x.disk.dirs
                         /\ gitignore' = x.disk.gitignore
                         /\ last' = Settled("saved", r)

\* useScopedSettings: deleteScope, the delete and then the reload.
DeleteScope ==
    /\ Spend
    /\ \E scope \in Scopes :
          \E fail \in IF Exists(files[scope]) THEN {"none", "unlink"}
                      ELSE {"none"} :
             \E x \in {deleteScopeSettings(Here, scope, fail)} :
                IF x.threw
                THEN /\ SetDisk(x.disk)
                     /\ last' = [last EXCEPT !.op = "deletefailed",
                                             !.threw = TRUE]
                ELSE \E lf \in LoadFails(x.disk.files),
                        seed \in Seeds(x.disk.files) :
                        \E r \in {resolveSettings(x.disk.files, lf, seed)} :
                            /\ files' = r.files
                            /\ dirs' = x.disk.dirs
                            /\ gitignore' = x.disk.gitignore
                            /\ last' = Settled("deleted", r)

NextTui ==
    AppStart \/ LoadSettings \/ SetSaveScope \/ SaveToCurrentScope
    \/ DeleteScope

SpecTui == InitTui /\ [][NextTui]_vars

\* The step ended with a load that fulfilled.
LoadedNow ==
    /\ last.op \in {"appstart", "load", "saved", "deleted"}
    /\ ~last.threw

\* C28: after the settings are loaded in the editor (the start-up effect of
\* App, loadSettings of useScopedSettings, alone or after a save or delete),
\* the save scope is local if sources.local is non-null, else project if
\* sources.project is non-null, else user.
C28_DefaultSaveScope ==
    LoadedNow =>
        /\ last.sources["local"] # Null => last.scope = "local"
        /\ last.sources["local"] = Null /\ last.sources["project"] # Null =>
              last.scope = "project"
        /\ last.sources["local"] = Null /\ last.sources["project"] = Null =>
              last.scope = "user"

\* The user chose the user scope, saved there, and the reload that follows
\* the save moved the save scope back to local, whose file is loaded.
C28_Witness ==
    /\ last.op = "saved"
    /\ ~last.threw
    /\ last.sources["user"] # Null
    /\ last.sources["local"] # Null
    /\ last.scope = "local"

-----------------------------------------------------------------------------
(* Two processes on the same files: the status line (ccstatusline.ts) and   *)
(* the editor. A process runs resolveSettings one await at a time: the load *)
(* of the user, the project and the local scope, the merge, the validation; *)
(* then it saves what it derived from the settings it resolved. The steps   *)
(* of the two processes interleave.                                         *)

Pids == {"render", "editor"}

\* userPath, projectPath, localPath, in the order they are awaited.
LoadOrder == <<"user", "project", "local">>

\* A resolveSettings that merges as soon as the first load has settled.
AfterLoadMergeAtOnce(at) == "merge"

\* Where resolveSettings goes on after the load number at has settled.
AfterLoad(at) == IF at = Len(LoadOrder) THEN "merge" ELSE "load"

Event(kind, scope) == kind \o ":" \o scope

NotStarted ==
    [pc |-> "load", at |-> 1, loads |-> [s \in Scopes |-> Undefined],
     merged |-> Undefined, settings |-> Undefined, trace |-> <<>>,
     wrote |-> Undefined, seen |-> MissingFile]

ProcFiles ==
    {f \in [Scopes -> {MissingFile, JsonFile(VersionDoc(2)),
                       JsonFile(VersionDoc(3)),
                       JsonFile(VersionDoc(CURRENT_VERSION)),
                       JsonFile(PartialDoc(0))}] :
        /\ f["user"] \in {JsonFile(VersionDoc(2)),
                          JsonFile(VersionDoc(CURRENT_VERSION))}
        /\ f["project"] \in {MissingFile, JsonFile(VersionDoc(3))}
        /\ f["local"] \in {MissingFile, JsonFile(PartialDoc(0))}}

InitProc ==
    /\ files \in ProcFiles
    /\ dirs \in [Dirs -> BOOLEAN]
    /\ DirsHold(files, dirs)
    /\ gitignore = NoGitignore
    /\ procs = [p \in Pids |-> NotStarted]
    /\ tui = 0
    /\ last = 0
    /\ budget = 0
    /\ mergeSources = <<>>
    /\ mergeResult = NotCalled
    /\ mig = 0
    /\ walk = 0

NotProc == <<last, budget, mergeSources, mergeResult, mig, walk, tui>>

\* await loadSingleScopeSettings(path) of the next scope; seen is the user
\* file as this process read it.
LoadScope(p) ==
    /\ procs[p].pc = "load"
    /\ \E s \in {LoadOrder[procs[p].at]}, seed \in Seeds(files) :
          \E ld \in {loadSingleScopeSettings(files[s], "none", seed)} :
              /\ files' = [files EXCEPT ![s] = ld.file]
              /\ procs' = [procs EXCEPT
                    ![p].loads[s] = ld.ret,
                    ![p].seen = IF s = "user" THEN ld.file ELSE @,
                    ![p].trace =
                        @ \o <<Event("begin", s)>>
                          \o (IF ld.path = "migrated"
                              THEN <<Event("migrate", s), Event("writeback", s)>>
                              ELSE <<>>)
                          \o <<Event("end", s)>>,
                    ![p].at = @ + 1,
                    ![p].pc = AfterLoad(procs[p].at)]
    /\ UNCHANGED <<dirs, gitignore>>
    /\ UNCHANGED NotProc

\* const merged = deepMerge<Settings>(defaults, userSettings, ...)
Merge(p) ==
    /\ procs[p].pc = "merge"
    /\ procs' = [procs EXCEPT
          ![p].merged = MergeScopes(SchemaDefaults, procs[p].loads["user"],
                                    procs[p].loads["project"],
                                    procs[p].loads["local"]),
          ![p].trace = Append(@, "merge"),
          ![p].pc = "validate"]
    /\ UNCHANGED <<files, dirs, gitignore>>
    /\ UNCHANGED NotProc

\* const validated = SettingsSchema.parse(merged)
Validate(p) ==
    /\ procs[p].pc = "validate"
    /\ \E v \in {Validated(procs[p].merged)} :
          procs' = [procs EXCEPT
              ![p].settings = v.settings,
              ![p].trace = Append(@, "validate"),
              ![p].pc = IF v.threw THEN "threw" ELSE "resolved"]
    /\ UNCHANGED <<files, dirs, gitignore>>
    /\ UNCHANGED NotProc

\* What the process saves: the status line the settings with the message
\* counted down, the editor the settings with the user's change.
ToSave(p, settings) ==
    IF p = "render" THEN AfterMessage(settings)
    ELSE With(settings, "colorLevel", Num(3))

\* renderMultipleLines: the message is shown and saveSettings is awaited;
\* the editor: saveScopedSettings(settings, { scope: 'user' }).
SaveSettings(p) ==
    /\ procs[p].pc = "resolved"
    /\ IF p = "render" /\ ~ShowsMessage(procs[p].settings)
       THEN /\ procs' = [procs EXCEPT ![p].pc = "done"]
            /\ UNCHANGED <<files, dirs, gitignore>>
       ELSE \E doc \in {ToSave(p, procs[p].settings)} :
               \E x \in {saveScopedSettings(Here, doc, "user", Undefined,
                                            "none")} :
                   /\ SetDisk(x.disk)
                   /\ procs' = [procs EXCEPT
                         ![p].wrote = doc,
                         ![p].pc = IF x.threw THEN "failed" ELSE "saved"]
    /\ UNCHANGED NotProc

NextProc ==
    \E p \in Pids : LoadScope(p) \/ Merge(p) \/ Validate(p) \/ SaveSettings(p)

SpecProc == InitProc /\ [][NextProc]_vars

\* Process p completes a save in this step.
SaveBy(p) == procs[p].pc = "resolved" /\ procs'[p].pc \notin {"resolved", "done"}

\* C29: nothing in the save path prevents a lost update: a save by a
\* process that loaded the settings earlier always goes through and leaves
\* in the file the document that process derived from what it loaded,
\* whatever another process wrote to the file in between.
C29_SaveOverwrites ==
    [][\A p \in Pids :
          SaveBy(p) =>
              /\ procs'[p].pc = "saved"
              /\ files'["user"] = JsonFile(ToJSON(Stamp(procs'[p].wrote)))
              /\ \A k \in DOMAIN files'["user"].doc.v \ {"version"} :
                    files'["user"].doc.v[k] = procs'[p].wrote.v[k]]_vars

\* The lost update: both processes read the user file as it was at the
\* start, the editor saved its change of colorLevel and the status line
\* then saved the count-down of the message; the file holds the count-down
\* and the old colorLevel.
C29_Witness ==
    /\ procs["editor"].pc = "saved"
    /\ procs["render"].pc = "saved"
    /\ procs["editor"].seen = procs["render"].seen
    /\ Field(procs["editor"].wrote, "colorLevel") = Num(3)
    /\ Field(procs["render"].seen.doc, "colorLevel") = Num(1)
    /\ Field(files["user"].doc, "colorLevel") = Num(1)
    /\ Field(Field(files["user"].doc, "updatemessage"), "remaining") = Num(1)

Index(trace, e) == CHOOSE i \in DOMAIN trace : trace[i] = e
Before(trace, a, b) ==
    b \in Range(trace) => a \in Range(trace) /\ Index(trace, a) < Index(trace, b)

Ends == {Event("end", s) : s \in Scopes}
MigrationSteps ==
    {Event("migrate", s) : s \in Scopes} \cup {Event("writeback", s) : s \in Scopes}

\* C30, as stated: within one resolveSettings call no migration, merge or
\* validation step and no migration write-back runs before all three scope
\* loads have completed.
C30_NothingBeforeAllLoads ==
    \A p \in Pids :
        \A i, j \in DOMAIN procs[p].trace :
            i < j /\ procs[p].trace[j] \in Ends =>
                procs[p].trace[i] \notin MigrationSteps \cup {"merge", "validate"}

\* C30, amended: within one resolveSettings call the merge and the
\* validation run only after all three scope loads have completed, the
\* validation after the merge; the loads run one after the other in the
\* order user, project, local; the migration of a scope's document and its
\* write-back run inside that scope's load, before the loads that follow.
C30_MergeAfterAllLoads ==
    \A p \in Pids :
        LET t == procs[p].trace
        IN  /\ \A e \in Ends : Before(t, e, "merge")
            /\ Before(t, "merge", "validate")
            /\ \A i \in 1..Len(LoadOrder) - 1 :
                  Before(t, Event("end", LoadOrder[i]),
                            Event("begin", LoadOrder[i + 1]))
            /\ \A s \in Scopes :
                  /\ Before(t, Event("begin", s), Event("migrate", s))
                  /\ Before(t, Event("migrate", s), Event("writeback", s))
                  /\ Event("writeback", s) \in Range(t) =>
                        /\ Event("end", s) \in Range(t)
                        /\ Index(t, Event("writeback", s))
                              < Index(t, Event("end", s))
                  /\ Before(t, Event("begin", s), Event("end", s))
            /\ \A i, j \in DOMAIN t : t[i] = t[j] => i = j

\* The user file was migrated and written back before the project file
\* was read, and the call went on to merge and validate.
C30_Witness ==
    \E p \in Pids :
        LET t == procs[p].trace
        IN  /\ "validate" \in Range(t)
            /\ Event("writeback", "user") \in Range(t)
            /\ Index(t, Event("writeback", "user"))
                   < Index(t, Event("begin", "project"))
            /\ files["user"] = JsonFile(ToJSON(procs[p].loads["user"]))

-----------------------------------------------------------------------------
(* Custom modules across scopes, checked under Spec.                        *)

\* The names of the custom modules a document lists.
ModuleNames(doc) ==
    IF IsArray(Field(doc, "customModules"))
    THEN {Field(m, "name").v : m \in Range(Field(doc, "customModules").v)}
    ELSE {}

\* C31: when the project scope and the local scope both define
\* customModules, the resolved settings contain the modules of both scopes:
\* the local modules are added to the project's, which stay available.
C31_ModulesOfBothScopes ==
    (/\ Resolved /\ ~last.threw
     /\ Defines("project", "customModules")
     /\ Defines("local", "customModules")
     /\ ModuleNames(Contribution("project")) # {}
     /\ ModuleNames(Contribution("local")) # {}) =>
        ModuleNames(Contribution("project")) \cup ModuleNames(Contribution("local"))
            \subseteq ModuleNames(last.settings)

-----------------------------------------------------------------------------
(* The scopes in the editor: App with ManageScopesMenu and ScopeSaveDialog. *)
(* tui holds the state of App (screen, settings, settingsSources,           *)
(* saveScope), the state of the component on screen (selectedIndex,         *)
(* confirmDelete), the asynchronous callbacks that were started and have    *)
(* not settled (pending), and the callback of the last key (called).        *)

MaxKeys == 6   \* key presses in one behaviour

SCOPES == <<"user", "project", "local">>

NoFail == [s \in Scopes |-> "none"]

MenuItem(action, scope) == [action |-> action, scope |-> scope]

\* A menu that offers the delete action for the user scope too.
ScopeItemsAnyDelete(scope, sources, saveScope) ==
    IF sources[scope] # Null
    THEN (IF scope # saveScope THEN <<MenuItem("setDefault", scope)>> ELSE <<>>)
         \o <<MenuItem("delete", scope)>>
    ELSE <<MenuItem("create", scope)>>

\* buildMenuItems: the selectable items of one scope.
ScopeItems(scope, sources, saveScope) ==
    IF sources[scope] # Null
    THEN (IF scope # saveScope THEN <<MenuItem("setDefault", scope)>> ELSE <<>>)
         \o (IF scope # "user" THEN <<MenuItem("delete", scope)>> ELSE <<>>)
    ELSE <<MenuItem("create", scope)>>

\* menuItems.filter(item => item.selectable)
selectableItems(sources, saveScope) ==
    ScopeItems(SCOPES[1], sources, saveScope)
    \o ScopeItems(SCOPES[2], sources, saveScope)
    \o ScopeItems(SCOPES[3], sources, saveScope)
    \o <<MenuItem("back", "none")>>

Max(a, b) == IF a >= b THEN a ELSE b
Min(a, b) == IF a <= b THEN a ELSE b

NoCall == [name |-> "none", scope |-> "none"]

Job(op, scope) ==
    [op |-> op, scope |-> scope, settings |-> tui.settings,
     saveScope |-> tui.saveScope]

AppFiles ==
    {MissingFile, MalformedFile, JsonFile(VersionDoc(CURRENT_VERSION)),
     JsonFile(PartialDoc(0))}

\* App after the start-up load has settled, on the main screen.
InitApp ==
    /\ files \in [Scopes -> AppFiles]
    /\ dirs = [d \in Dirs |-> \E s \in Scopes : DirOf(s) = d /\ Exists(files[s])]
    /\ gitignore = NoGitignore
    /\ \E r \in {resolveSettings(files, NoFail, 1)} :
          /\ ~r.threw
          /\ r.files = files
          /\ tui = [screen |-> "main", settings |-> r.settings,
                    sources |-> r.sources,
                    saveScope |-> DefaultSaveScope(r.sources),
                    selectedIndex |-> 0, confirmDelete |-> "none",
                    pending |-> <<>>, called |-> NoCall, keys |-> MaxKeys]
    /\ last = 0
    /\ budget = 0
    /\ mergeSources = <<>>
    /\ mergeResult = NotCalled
    /\ mig = 0
    /\ walk = 0
    /\ procs = 0

NotApp == <<last, budget, mergeSources, mergeResult, mig, walk, procs>>
DiskSame == UNCHANGED <<files, dirs, gitignore>>

\* A key is pressed: what the handlers leave in tui.
Pressed(t) == tui' = [t EXCEPT !.keys = tui.keys - 1]

\* The main menu: 'scopes' is selected; ManageScopesMenu is mounted.
OpenScopes ==
    /\ tui.keys > 0
    /\ tui.screen = "main"
    /\ Pressed([tui EXCEPT !.screen = "scopes", !.selectedIndex = 0,
                           !.confirmDelete = "none", !.called = NoCall])
    /\ DiskSame
    /\ UNCHANGED NotApp

\* ManageScopesMenu: the useInput handler.
ManageScopesInput ==
    /\ tui.keys > 0
    /\ tui.screen = "scopes"
    /\ \E key \in {"up", "down", "return", "escape", "y", "n", "other"} :
       \E items \in {selectableItems(tui.sources, tui.saveScope)} :
          Pressed(
            IF tui.confirmDelete # "none"
            THEN IF key = "y"
                 THEN [tui EXCEPT
                         !.called = [name |-> "onDeleteScope",
                                     scope |-> tui.confirmDelete],
                         !.pending = Append(@, Job("delete", tui.confirmDelete)),
                         !.confirmDelete = "none"]
                 ELSE IF key \in {"n", "escape"}
                 THEN [tui EXCEPT !.confirmDelete = "none", !.called = NoCall]
                 ELSE [tui EXCEPT !.called = NoCall]
            ELSE IF key = "up"
            THEN [tui EXCEPT !.selectedIndex = Max(0, @ - 1), !.called = NoCall]
            ELSE IF key = "down"
            THEN [tui EXCEPT !.selectedIndex = Min(Len(items) - 1, @ + 1),
                             !.called = NoCall]
            ELSE IF key = "return"
            THEN IF tui.selectedIndex + 1 \in DOMAIN items
                 THEN LET item == items[tui.selectedIndex + 1]
                      IN  IF item.action = "back"
                          THEN [tui EXCEPT !.screen = "main",
                                           !.called = [name |-> "onBack",
                                                       scope |-> "none"]]
                          ELSE IF item.action = "create"
                          THEN [tui EXCEPT
                                  !.called = [name |-> "onCreateScope",
                                              scope |-> item.scope],
                                  !.pending = Append(@, Job("create", item.scope))]
                          ELSE IF item.action = "delete"
                          THEN [tui EXCEPT !.confirmDelete = item.scope,
                                           !.called = [name |-> "setConfirmDelete",
                                                       scope |-> item.scope]]
                          ELSE [tui EXCEPT !.saveScope = item.scope,
                                           !.called = [name |-> "onSetSaveScope",
                                                       scope |-> item.scope]]
                 ELSE [tui EXCEPT !.called = NoCall]
            ELSE IF key = "escape"
            THEN [tui EXCEPT !.screen = "main",
                             !.called = [name |-> "onBack", scope |-> "none"]]
            ELSE [tui EXCEPT !.called = NoCall])
    /\ DiskSame
    /\ UNCHANGED NotApp

\* App: the useInput handler, Ctrl+S.
CtrlS ==
    /\ tui.keys > 0
    /\ Pressed(
         IF tui.sources["project"] # Null \/ tui.sources["local"] # Null
         THEN [tui EXCEPT !.screen = "scopeSave",
                          !.selectedIndex =
                              CHOOSE i \in 0..2 : SCOPES[i + 1] = tui.saveScope,
                          !.confirmDelete = "none", !.called = NoCall]
         ELSE [tui EXCEPT !.pending = Append(@, Job("save", tui.saveScope)),
                          !.called = [name |-> "saveScopedSettings",
                                      scope |-> tui.saveScope]])
    /\ DiskSame
    /\ UNCHANGED NotApp

\* ScopeSaveDialog: the useInput handler.
ScopeSaveInput ==
    /\ tui.keys > 0
    /\ tui.screen = "scopeSave"
    /\ \E key \in {"up", "down", "return", "escape"} :
          Pressed(
            IF key = "up"
            THEN [tui EXCEPT !.selectedIndex = Max(0, @ - 1), !.called = NoCall]
            ELSE IF key = "down"
            THEN [tui EXCEPT !.selectedIndex = Min(Len(SCOPES) - 1, @ + 1),
                             !.called = NoCall]
            ELSE IF key = "return"
            THEN [tui EXCEPT
                    !.pending = Append(@, Job("saveTo", SCOPES[tui.selectedIndex + 1])),
                    !.called = [name |-> "onSelect",
                                scope |-> SCOPES[tui.selectedIndex + 1]]]
            ELSE [tui EXCEPT !.screen = "main",
                             !.called = [name |-> "onCancel", scope |-> "none"]])
    /\ DiskSame
    /\ UNCHANGED NotApp

\* The asynchronous callback that was started first runs to its end.
Settle ==
    /\ tui.pending # <<>>
    /\ \E j \in {Head(tui.pending)} :
       \E t \in {[tui EXCEPT !.pending = Tail(@)]} :
          CASE j.op = "create" ->
                 \E x \in {createScopeSettings(Here, j.scope, j.settings, "none")} :
                 \E r \in {resolveSettings(x.disk.files, NoFail, 1)} :
                    /\ SetDisk(Disk(r.files, x.disk.dirs, x.disk.gitignore))
                    /\ tui' = IF r.threw THEN t
                              ELSE [t EXCEPT !.sources = r.sources]
            [] j.op = "delete" ->
                 \E x \in {deleteScopeSettings(Here, j.scope, "none")} :
                 \E r \in {resolveSettings(x.disk.files, NoFail, 1)} :
                    /\ SetDisk(Disk(r.files, x.disk.dirs, x.disk.gitignore))
                    /\ tui' = IF r.threw THEN t
                              ELSE [t EXCEPT
                                      !.settings = r.settings,
                                      !.sources = r.sources,
                                      !.saveScope = IF j.scope = j.saveScope
                                                    THEN "user" ELSE @]
            [] j.op = "save" ->
                 \E x \in {saveScopedSettings(Here, j.settings, j.saveScope,
                                              Undefined, "none")} :
                    /\ SetDisk(x.disk)
                    /\ tui' = t
            [] j.op = "saveTo" ->
                 \E x \in {saveScopedSettings(Here, j.settings, j.scope,
                                              Undefined, "none")} :
                    /\ SetDisk(x.disk)
                    /\ tui' = [t EXCEPT !.saveScope = j.scope,
                                        !.screen = "main"]
    /\ UNCHANGED NotApp

NextApp == OpenScopes \/ ManageScopesInput \/ CtrlS \/ ScopeSaveInput \/ Settle

SpecApp == InitApp /\ [][NextApp]_vars

\* The key of this step made ManageScopesMenu call onDeleteScope.
DeleteInvoked == tui'.keys < tui.keys /\ tui'.called.name = "onDeleteScope"

DeleteJobs(pending) == Len(SelectSeq(pending, LAMBDA j : j.op = "delete"))

\* C32: in the Manage Scopes menu the user scope can never be deleted and a
\* deletion needs confirmation: the confirmation opens only by selecting the
\* delete action of the project or local scope while that scope is shown as
\* existing; onDeleteScope(scope) is invoked only by Y in the confirmation
\* opened for that scope; any other key, N and Escape included, deletes
\* nothing, and N and Escape close the confirmation.
C32_DeleteConfirmed ==
    [][/\ (tui.confirmDelete = "none" /\ tui'.confirmDelete # "none") =>
              /\ tui'.confirmDelete \in {"project", "local"}
              /\ tui.sources[tui'.confirmDelete] # Null
              /\ tui.screen = "scopes"
              /\ tui'.called = [name |-> "setConfirmDelete",
                                scope |-> tui'.confirmDelete]
              /\ tui'.pending = tui.pending
       /\ DeleteInvoked =>
              /\ tui'.called.scope \in {"project", "local"}
              /\ tui.confirmDelete = tui'.called.scope
              /\ tui'.confirmDelete = "none"
       /\ DeleteJobs(tui'.pending) > DeleteJobs(tui.pending) => DeleteInvoked
       /\ (\E x \in Scopes : Exists(files[x]) /\ ~Exists(files'[x])) =>
              /\ tui.pending # <<>>
              /\ Head(tui.pending).op = "delete"
              /\ Head(tui.pending).scope \in {"project", "local"}
       /\ (tui.confirmDelete # "none" /\ tui'.keys < tui.keys
             /\ tui'.called.name \in {"none"} /\ tui'.screen = "scopes"
             /\ tui'.confirmDelete = "none") =>
              tui'.pending = tui.pending]_vars

\* Y was pressed in the confirmation for the local scope, the deletion ran
\* and the local file is gone.
C32_Witness ==
    /\ tui.called = [name |-> "onDeleteScope", scope |-> "local"]
    /\ tui.pending = <<>>
    /\ tui.sources["local"] = Null
    /\ ~Exists(files["local"])
    /\ tui.confirmDelete = "none"

\* The last of the save, create and delete actions that were started
\* completes in this step.
ActionsCompleted == tui.pending # <<>> /\ tui'.pending = <<>>

\* C37: in the editor, after a save, create-scope or delete-scope action has
\* completed, settingsSources[s] is non-null exactly for the scopes whose
\* settings file exists on disk.
C37_SourcesMatchFiles ==
    [][ActionsCompleted =>
          \A s \in Scopes : tui'.sources[s] # Null <=> Exists(files'[s])]_vars

-----------------------------------------------------------------------------
(* The update message over render passes, checked under SpecRun.            *)

Remaining(settings) == Field(Field(settings, "updatemessage"), "remaining")

\* This step is a render pass that printed the message and saved.
PrintedNow == last'.op = "render" /\ last'.printed /\ ~last'.threw

\* C33: every render pass that prints the update message lowers by one the
\* remaining count the next render pass sees, and removes the message when
\* the count reaches zero, so that the message is printed at most
\* UpdateRemaining times.
C33_CountDown ==
    [][PrintedNow =>
          \E next \in {resolveSettings(files', NoFail, 1)} :
              /\ ~next.threw
              /\ IF Remaining(last'.settings).v = 1
                 THEN ~ShowsMessage(next.settings)
                 ELSE /\ ShowsMessage(next.settings)
                      /\ Remaining(next.settings).v
                            = Remaining(last'.settings).v - 1]_vars

-----------------------------------------------------------------------------
(* The scope paths, checked under SpecPath.                                 *)

ScopePaths ==
    getAllScopePaths(walk.root, walk.config.dir, walk.config.home, walk.cwd)

\* C34: for every working directory, git root and config-directory
\* setting, the user, project and local scope paths of getAllScopePaths are
\* pairwise distinct.
C34_PathsDistinct ==
    ConfigResolved =>
        \A a, b \in Scopes : a # b => ScopePaths[a] # ScopePaths[b]

-----------------------------------------------------------------------------
(* What the status line and the interactive start write, under Spec.        *)

\* This step is a render pass or an interactive start whose load left the
\* user file as it was.
PassNow ==
    /\ last'.op \in {"render", "start"}
    /\ last'.load["user"].path \in {"unchanged", "missing"}

UserKeys(f) == IF f.kind = "json" /\ f.doc.t = "object" THEN DOMAIN f.doc.v ELSE {}

\* C35: a render pass or an interactive start changes at most the
\* updatemessage and version fields of the user-scope document, and creates
\* no user-scope file when none existed.
C35_UserFileFrame ==
    [][PassNow =>
          /\ ~Exists(files["user"]) => ~Exists(files'["user"])
          /\ Exists(files["user"]) =>
                \A k \in (UserKeys(files["user"]) \cup UserKeys(files'["user"]))
                            \ {"updatemessage", "version"} :
                    /\ k \in UserKeys(files["user"])
                    /\ k \in UserKeys(files'["user"])
                    /\ files'["user"].doc.v[k] = files["user"].doc.v[k]]_vars

-----------------------------------------------------------------------------
(* Loading twice: SpecReload calls resolveSettings MaxLoads times on the    *)
(* same disk, with nothing else touching the files in between.              *)

MaxLoads == 2

InitReload ==
    /\ files \in [Scopes -> InitialFiles]
    /\ dirs = [d \in Dirs |-> TRUE]
    /\ gitignore = NoGitignore
    /\ last = Started
    /\ budget = MaxLoads
    /\ mergeSources = <<>>
    /\ mergeResult = NotCalled
    /\ mig = 0
    /\ walk = 0
    /\ procs = 0
    /\ tui = 0

NextReload == Resolve

SpecReload == InitReload /\ [][NextReload]_vars

\* No file operation of the load failed.
NoIOFailure(l) == \A s \in Scopes : l.load[s].path \notin {"readfail", "writefail"}

\* This step is a resolveSettings that follows a resolveSettings, no file
\* operation having failed in either.
SecondLoad ==
    /\ last.op = "resolve" /\ NoIOFailure(last)
    /\ last'.op = "resolve" /\ NoIOFailure(last')

\* C36: after one resolveSettings, a second one with no change to the files
\* in between writes no file, leaves every scope file unchanged and returns
\* equal settings.
C36_SecondLoadIdle ==
    [][SecondLoad =>
          /\ \A s \in Scopes : last'.load[s].path # "migrated"
          /\ files' = files
          /\ last'.threw = last.threw
          /\ last'.settings = last.settings]_vars

-----------------------------------------------------------------------------
(* deepMerge as a fold: SpecFold draws three documents that hold no         *)
(* undefined value and calls deepMerge on them in three ways. mergeResult   *)
(* names the call made and holds what it returned.                          *)

FoldInner == ObjectsOver({"x"}, [k \in {"x"} |-> {Num(1), Num(2)}])
FoldMid   == ObjectsOver({"x", "y"},
                         [k \in {"x", "y"} |->
                            IF k = "x" THEN {Num(1), MArr(1)} \cup FoldInner
                            ELSE {Num(2)}])
FoldDocs  == ObjectsOver({"a", "b"},
                         [k \in {"a", "b"} |->
                            IF k = "a" THEN {Num(1), MArr(1), MArr(2)} \cup FoldMid
                            ELSE {Num(1)}])

InitFold ==
    /\ mergeSources \in {<<x, y, z>> : x \in FoldDocs, y \in FoldDocs, z \in FoldDocs}
    /\ mergeResult = NotCalled
    /\ files = NoFiles
    /\ dirs = 0
    /\ gitignore = 0
    /\ last = 0
    /\ budget = 0
    /\ mig = 0
    /\ walk = 0
    /\ procs = 0
    /\ tui = 0

Returns(call, value) == [t |-> call, v |-> value]

NotFold == <<mergeSources, files, dirs, gitignore, last, budget, mig, walk,
             procs, tui>>

\* deepMerge(deepMerge(a, b), c)
MergeNested ==
    /\ mergeResult = NotCalled
    /\ Len(mergeSources) = 3
    /\ \E ab \in {deepMerge(<<mergeSources[1], mergeSources[2]>>)} :
          mergeResult' = Returns("nested", deepMerge(<<ab, mergeSources[3]>>))
    /\ UNCHANGED NotFold

\* deepMerge(A, A)
MergeSelf ==
    /\ mergeResult = NotCalled
    /\ Len(mergeSources) = 3
    /\ mergeResult' = Returns("self", deepMerge(<<mergeSources[1], mergeSources[1]>>))
    /\ UNCHANGED NotFold

\* deepMerge(A, {})
MergeEmpty ==
    /\ mergeResult = NotCalled
    /\ Len(mergeSources) = 3
    /\ mergeResult' = Returns("empty", deepMerge(<<mergeSources[1], EmptyObj>>))
    /\ UNCHANGED NotFold

NextFold == MergeNested \/ MergeSelf \/ MergeEmpty

SpecFold == InitFold /\ [][NextFold]_vars

\* C38: on plain-object documents that hold no undefined value, deepMerge is
\* a left fold, deepMerge(a, b, c) = deepMerge(deepMerge(a, b), c), and it
\* is idempotent: deepMerge(A, A) = A and deepMerge(A, {}) = A.
C38_LeftFoldIdempotent ==
    /\ mergeResult.t = "nested" => mergeResult.v = deepMerge(mergeSources)
    /\ mergeResult.t = "self" => mergeResult.v = mergeSources[1]
    /\ mergeResult.t = "empty" => mergeResult.v = mergeSources[1]

\* The nested call merged three documents whose key a holds an object in
\* each, the objects being merged key by key into one none of them equals.
C38_Witness ==
    /\ mergeResult.t = "nested"
    /\ \A i \in 1..3 : /\ "a" \in DOMAIN mergeSources[i].v
                        /\ isPlainObject(mergeSources[i].v["a"])
                        /\ mergeResult.v.v["a"] # mergeSources[i].v["a"]
    /\ IsArray(mergeSources[2].v["a"].v["x"])

-----------------------------------------------------------------------------
(* InstallMenu: the install wizard, one action per key. tui holds the       *)
(* props (bunxAvailable, currentCcstatuslineScope), the component's state,  *)
(* whether it is still on screen, the options onInstall was called with,    *)
(* the selections made with Return (trail) and the keys still to come.      *)

MaxPresses == 10

Steps == {"package-manager", "claude-scope", "ccstatusline-scope", "confirm"}

getMaxIndex(step) ==
    CASE step = "package-manager" -> 2
      [] step = "claude-scope" -> 3
      [] step = "ccstatusline-scope" -> 4
      [] step = "confirm" -> 2

\* The step goBack leaves the wizard at.
goBackToStart(step) == "package-manager"
goBack(step) ==
    CASE step = "claude-scope" -> "package-manager"
      [] step = "ccstatusline-scope" -> "claude-scope"
      [] step = "confirm" -> "ccstatusline-scope"
      [] OTHER -> step

InitInstall ==
    /\ \E bunxAvailable \in BOOLEAN, current \in Scopes :
          tui = [step |-> "package-manager", selectedIndex |-> 0,
                 useBunx |-> FALSE, claudeScope |-> "user",
                 ccstatuslineScope |-> current,
                 bunxAvailable |-> bunxAvailable,
                 currentCcstatuslineScope |-> current,
                 open |-> TRUE, installs |-> <<>>, trail |-> <<>>,
                 presses |-> MaxPresses]
    /\ files = NoFiles
    /\ dirs = 0
    /\ gitignore = 0
    /\ last = 0
    /\ budget = 0
    /\ mergeSources = <<>>
    /\ mergeResult = NotCalled
    /\ mig = 0
    /\ walk = 0
    /\ procs = 0

NotTui == <<files, dirs, gitignore, last, budget, mergeSources, mergeResult,
            mig, walk, procs>>

\* A key reaches the wizard: t is the state the handler leaves.
Listening == tui.open /\ tui.presses > 0
Key(t) ==
    /\ tui' = [t EXCEPT !.presses = tui.presses - 1]
    /\ UNCHANGED NotTui

\* goBack()
WentBack(t) == [t EXCEPT !.selectedIndex = 0, !.step = goBack(t.step)]

\* onCancel(): App leaves the install screen.
Cancelled(t) == [t EXCEPT !.open = FALSE]

\* The step moves on with selectedIndex at 0.
Forward(t, step) == [t EXCEPT !.step = step, !.selectedIndex = 0]

EscapeKey ==
    /\ Listening
    /\ Key(IF tui.step = "package-manager" THEN Cancelled(tui) ELSE WentBack(tui))

UpArrow ==
    /\ Listening
    /\ Key([tui EXCEPT !.selectedIndex =
            IF tui.step = "package-manager" /\ tui.selectedIndex = 2
            THEN (IF tui.bunxAvailable THEN 1 ELSE 0)
            ELSE Max(0, tui.selectedIndex - 1)])

DownArrow ==
    /\ Listening
    /\ Key([tui EXCEPT !.selectedIndex =
            IF tui.step = "package-manager" /\ tui.selectedIndex = 0
               /\ ~tui.bunxAvailable
            THEN 2
            ELSE IF tui.step = "package-manager" /\ tui.selectedIndex = 1
                    /\ tui.bunxAvailable
            THEN 2
            ELSE Min(getMaxIndex(tui.step), tui.selectedIndex + 1)])

\* handleSelect()
handleSelect(t) ==
    CASE t.step = "package-manager" ->
            IF t.selectedIndex = 0
            THEN Forward([t EXCEPT !.useBunx = FALSE], "claude-scope")
            ELSE IF t.selectedIndex = 1 /\ t.bunxAvailable
            THEN Forward([t EXCEPT !.useBunx = TRUE], "claude-scope")
            ELSE IF t.selectedIndex = 2 THEN Cancelled(t)
            ELSE t
      [] t.step = "claude-scope" ->
            IF t.selectedIndex < 3
            THEN Forward([t EXCEPT !.claudeScope = SCOPES[t.selectedIndex + 1]],
                         "ccstatusline-scope")
            ELSE WentBack(t)
      [] t.step = "ccstatusline-scope" ->
            IF t.selectedIndex < 3
            THEN Forward([t EXCEPT !.ccstatuslineScope = SCOPES[t.selectedIndex + 1]],
                         "confirm")
            ELSE IF t.selectedIndex = 3
            THEN Forward([t EXCEPT !.ccstatuslineScope = t.currentCcstatuslineScope],
                         "confirm")
            ELSE WentBack(t)
      [] t.step = "confirm" ->
            IF t.selectedIndex = 0
            THEN [t EXCEPT !.installs =
                     Append(@, [useBunx |-> t.useBunx,
                                claudeScope |-> t.claudeScope,
                                ccstatuslineScope |-> t.ccstatuslineScope])]
            ELSE WentBack(t)

ReturnKey ==
    /\ Listening
    /\ Key(handleSelect([tui EXCEPT !.trail =
                         Append(@, [step |-> tui.step,
                                    index |-> tui.selectedIndex])]))

\* handleInstall has run to its end: App shows the main menu again.
InstallDone ==
    /\ tui.open /\ Len(tui.installs) > 0
    /\ tui' = [tui EXCEPT !.open = FALSE]
    /\ UNCHANGED NotTui

NextInstall == EscapeKey \/ UpArrow \/ DownArrow \/ ReturnKey \/ InstallDone

SpecInstall == InitInstall /\ [][NextInstall]_vars

\* The indices of the options the wizard displays at a step.
Displayed(step, bunxAvailable) ==
    CASE step = "package-manager" -> IF bunxAvailable THEN {0, 1, 2} ELSE {0, 2}
      [] step = "claude-scope" -> 0..3
      [] step = "ccstatusline-scope" -> 0..4
      [] step = "confirm" -> {0, 1}

\* C39: in the install wizard, after any sequence of keys, selectedIndex
\* designates one of the options displayed for the current step.
C39_IndexDisplayed ==
    tui.selectedIndex \in Displayed(tui.step, tui.bunxAvailable)

\* The moves between steps: one step forwards, one step backwards.
OneStep ==
    {<<"package-manager", "claude-scope">>, <<"claude-scope", "ccstatusline-scope">>,
     <<"ccstatusline-scope", "confirm">>,
     <<"claude-scope", "package-manager">>, <<"ccstatusline-scope", "claude-scope">>,
     <<"confirm", "ccstatusline-scope">>}

\* The last selection of the trail made at a step on one of the indices.
LastChoice(trail, step, indices) ==
    LET made == {i \in DOMAIN trail :
                    trail[i].step = step /\ trail[i].index \in indices}
    IN  trail[CHOOSE i \in made : \A j \in made : j <= i].index

\* onInstall is called in this step.
InstallInvoked == Len(tui'.installs) > Len(tui.installs)

\* The scope an index of the ccstatusline step stands for.
ScopeAt(index, current) == IF index = 3 THEN current ELSE SCOPES[index + 1]

\* C40: onInstall is invoked only by Return on Confirm in the confirm step;
\* the step changes only by one step forwards or backwards from the
\* package-manager step on; the options passed are the package manager,
\* Claude scope and ccstatusline scope selected most recently in their
\* steps, useBunx being true only if bunx is available.
C40_InstallFromConfirm ==
    [][/\ tui'.step # tui.step => <<tui.step, tui'.step>> \in OneStep
       /\ InstallInvoked =>
             LET options == tui'.installs[Len(tui'.installs)]
                 trail == tui'.trail
             IN  /\ tui.step = "confirm" /\ tui.selectedIndex = 0
                 /\ Len(tui'.installs) = Len(tui.installs) + 1
                 /\ trail[Len(trail)] = [step |-> "confirm", index |-> 0]
                 /\ options.useBunx => tui.bunxAvailable
                 /\ options.useBunx =
                       (LastChoice(trail, "package-manager", {0, 1}) = 1)
                 /\ options.claudeScope =
                       SCOPES[LastChoice(trail, "claude-scope", 0..2) + 1]
                 /\ options.ccstatuslineScope =
                       ScopeAt(LastChoice(trail, "ccstatusline-scope", 0..3),
                               tui.currentCcstatuslineScope)]_vars

\* onInstall was called with bunx, the project scope for Claude and the
\* local scope for ccstatusline, after the wizard had gone back a step.
C40_Witness ==
    /\ tui.installs # <<>>
    /\ tui.installs[1] = [useBunx |-> TRUE, claudeScope |-> "project",
                          ccstatuslineScope |-> "local"]
    /\ tui.currentCcstatuslineScope = "user"
    /\ Len(tui.trail) > 4

====
